---- MODULE Spec2Model ----
(***************************************************************************)
(* Model of the archive-migration scripts of this repository.              *)
(*                                                                         *)
(*   Spec        StaticCommentOrganizer.process                            *)
(*               (organize_comments_static.py): clean, parse, deduplicate, *)
(*               chunk, index.  parse_json_files is one step whose result  *)
(*               is any mapping it can return.                             *)
(*   SpecParse   the two parsers of the JSON input, read entry by entry:   *)
(*               parse_json_files followed by deduplicate_comments         *)
(*               (script = "organize"), and analyze_json_file with the     *)
(*               aggregation of analyze_comments.main (script = "analyze") *)
(*   SpecLoader  the CommentDatabase loader that create_loader_script      *)
(*               emits, run against artifacts the organizer writes         *)
(*   SpecPreindex  preindex_comments.main: load the engagement records,    *)
(*               build the per-video comment index, the search index and   *)
(*               the word-frequency index, save them                       *)
(*   SpecMatch   build_video_mapping.main: find the video files, load the  *)
(*               videos, match each video to a file, save the mapping      *)
(*   SpecTools   the main() functions that need input files:               *)
(*               analyze_comments.main, parse_comments_to_db.main with     *)
(*               CommentParser, import_to_render.main with RenderImporter  *)
(*                                                                         *)
(* In SpecParse the parser's loop body is one action, and the entry it     *)
(* sees is chosen from the set Entries.  The entries of a file that the    *)
(* loop never reaches (because an exception left the loop) are chosen by   *)
(* UnreadEntry.                                                            *)
(*                                                                         *)
(* Python dicts keep insertion order, so a dict whose iteration order      *)
(* matters is a sequence of [k |-> key, v |-> value] records.              *)
(***************************************************************************)
EXTENDS Integers, Sequences, FiniteSets, TLC

(***************************************************************************)
(* Bounds of the model.                                                    *)
(***************************************************************************)
NumIds == 3      \* comment identifiers are 1..NumIds
MaxTotal == 3    \* identifiers parse_json_files returns (all posts, with repeats)
MaxParsed == 2   \* identifiers aggregated when the input is read entry by entry
MaxChunk == 2    \* chunk capacities tried: 1..MaxChunk
MaxEntries == 2  \* entries counted per file by analyze_json_file
MaxPage == 3     \* pages requested from the loader: 1..MaxPage
MaxLimit == 2    \* page sizes requested from the loader: 1..MaxLimit
MaxRecords == 3  \* engagement records whose like counts and timestamps vary
MaxLikes == 2    \* like counts: 0..MaxLikes
MaxStamp == 1    \* publish timestamps: 0..MaxStamp
MaxFiller == 8   \* further liked records without text that follow the varied ones
MaxFiles == 2    \* file names in the downloads folder
MaxVideos == 2   \* entries of videos.json
MaxBatch == 2    \* self.batch_size of RenderImporter: 1..MaxBatch
MaxCsvRows == 3  \* data rows of a CSV file to import

CommentIds == 1..NumIds

(***************************************************************************)
(* Generic helpers.                                                        *)
(***************************************************************************)
Range(s) == {s[i] : i \in DOMAIN s}

PostSeq == <<"P", "Q">>
Posts == Range(PostSeq)

Min(a, b) == IF a < b THEN a ELSE b
Max(a, b) == IF a > b THEN a ELSE b

\* Python s[a:b] with 0 <= a, on 0-based positions
Slice(s, a, b) == SubSeq(s, a + 1, Min(b, Len(s)))

EmptyFn == [x \in {} |-> 0]

RECURSIVE Concat(_)
Concat(ss) == IF ss = <<>> THEN <<>> ELSE Head(ss) \o Concat(Tail(ss))

RECURSIVE SumSeq(_)
SumSeq(s) == IF s = <<>> THEN 0 ELSE Head(s) + SumSeq(Tail(s))

\* ordered dict: a sequence of [k, v] records with distinct keys
Keys(d) == {d[i].k : i \in DOMAIN d}
Get(d, key) == d[CHOOSE i \in DOMAIN d : d[i].k = key].v
GetOr(d, key, default) == IF key \in Keys(d) THEN Get(d, key) ELSE default
Put(d, key, val) ==
    IF key \in Keys(d)
    THEN [i \in DOMAIN d |-> IF d[i].k = key THEN [k |-> key, v |-> val] ELSE d[i]]
    ELSE Append(d, [k |-> key, v |-> val])
TotalLen(d) == SumSeq([i \in DOMAIN d |-> Len(d[i].v)])

(***************************************************************************)
(* The JSON input.  An entry is the value stored under one key of a file's *)
(* top-level mapping.                                                      *)
(*   isDict  the entry is a JSON object                                    *)
(*   target  the value of 'target': "" (also for an absent key), "P", "Q"  *)
(*           are strings; "#7" is the number 7 (true behaves alike: it is  *)
(*           truthy and can be a dict key), "#0" the number 0 and "#[7]"   *)
(*           the list [7] (a mapping behaves alike)                        *)
(*   logs    kind "list": a JSON array, items its elements                 *)
(*           kind "str":  a JSON string                                    *)
(*           kind "null": null (a number behaves the same: not iterable)   *)
(* A log is a JSON object (isDict) whose storedIds is a JSON array         *)
(* (idsIsList) of identifiers, or something else.                          *)
(***************************************************************************)
\* the identifiers and storedIds values of the entries SpecParse presents
ParseIds == 1..MaxParsed
IdSeqs ==
    {<<>>} \cup {<<a>> : a \in ParseIds}
           \cup {<<a, b>> : a \in ParseIds, b \in ParseIds}

GoodLog(ids) == [isDict |-> TRUE, idsIsList |-> TRUE, storedIds |-> ids]
NonDictLog == [isDict |-> FALSE, idsIsList |-> FALSE, storedIds |-> <<>>]
BadIdsLog == [isDict |-> TRUE, idsIsList |-> FALSE, storedIds |-> <<>>]

LogsList(items) == [kind |-> "list", items |-> items]
LogsStr == [kind |-> "str", items |-> <<>>]
LogsNull == [kind |-> "null", items |-> <<>>]

DictEntry(t, l) == [isDict |-> TRUE, target |-> t, logs |-> l]
NonDictEntry == [isDict |-> FALSE, target |-> "", logs |-> LogsList(<<>>)]

LogsValues ==
    {LogsNull, LogsStr, LogsList(<<>>), LogsList(<<NonDictLog>>), LogsList(<<BadIdsLog>>)}
    \cup {LogsList(<<GoodLog(s)>>) : s \in IdSeqs}
    \cup {LogsList(<<BadIdsLog, GoodLog(<<a>>)>>) : a \in ParseIds}

\* the values of 'target' that are no strings
NonStrTargets == {"#7", "#0", "#[7]"}

\* `if shortcode:` the truth value of a target
Truthy(t) == t \notin {"", "#0"}

\* a target can be a key of a dict unless it is a list
Hashable(t) == t # "#[7]"

\* every shape for post "P"; post "Q" and the targets that are no strings only
\* in entries of well-formed logs
Entries ==
    {NonDictEntry}
    \cup {DictEntry(t, LogsList(<<GoodLog(<<1>>)>>)) : t \in NonStrTargets}
    \cup {DictEntry("", LogsList(<<GoodLog(<<a>>)>>)) : a \in ParseIds}
    \cup {DictEntry("P", l) : l \in LogsValues}
    \cup {DictEntry("Q", LogsList(<<GoodLog(<<a>>)>>)) : a \in ParseIds}

\* What the input says, independently of any parser: an entry is malformed when
\* it is not a mapping, its logs is not a sequence, or a storedIds is not a sequence
Malformed(e) ==
    \/ ~e.isDict
    \/ e.logs.kind # "list"
    \/ \E i \in DOMAIN e.logs.items :
          e.logs.items[i].isDict /\ ~e.logs.items[i].idsIsList

\* the entry names a post and lists logs
Referencing(e) == e.isDict /\ e.target \in Posts /\ e.logs.kind = "list"

WellFormed(e) == Referencing(e) /\ ~Malformed(e)

\* the identifiers such an entry references for its post
EntryIds(e) ==
    UNION {Range(e.logs.items[i].storedIds) :
             i \in {j \in DOMAIN e.logs.items :
                      e.logs.items[j].isDict /\ e.logs.items[j].idsIsList}}

\* ghost bookkeeping: post -> set of identifiers
NoIds == [p \in Posts |-> {}]
AddIds(m, e) == [m EXCEPT ![e.target] = @ \cup EntryIds(e)]


(***************************************************************************)
(* State.                                                                  *)
(***************************************************************************)
VARIABLES
    script,             \* which program runs
    pc,                 \* its position
    event,              \* the step taken last
    \* organize_comments_static.py
    chunk_size,         \* self.chunk_size
    shortcode_comments, \* ordered dict shortcode -> list of identifiers
    chunk_pos,          \* position of create_chunked_files in shortcode_comments
    total_comments,     \* local counter of create_chunked_files
    total_chunks,       \* local counter of create_chunked_files
    index_data,         \* self.index_data
    chunk_files,        \* output directory: path <<shortcode, index>> -> chunk artifact
    index_json,         \* output directory: {} or {content of index.json}
    summary_json,       \* output directory: {} or {content of summary.json}
    loader_js,          \* output directory: comment-database.js exists
    write_error,        \* shortcodes whose chunk write raised
    \* analyze_comments.py
    shortcode_to_comments,    \* analyze_json_file: shortcode -> set of identifiers
    total_entries,            \* analyze_json_file
    error_entries,            \* analyze_json_file
    all_shortcodes_with_comments, \* main
    shortcode_comment_counts, \* main: shortcode -> count
    statistics,               \* {} or {top_commented_posts of comment_statistics.json}
    \* CommentDatabase (comment-database.js)
    db_index,           \* this.index: {} (null) or {index}
    db_cache,           \* this.cache: path -> comment_ids
    request,            \* arguments and fetch outcome of the last getCommentsForPost
    result,             \* value returned by the last getCommentsForPost
    \* preindex_comments.py
    comments_json,      \* main: comments, the records of data/comments.json
    video_comments_index, \* ordered dict video_id -> sorted records
    search_index,       \* comment_id -> search entry
    word_freq_index,    \* ordered dict video_id -> word_cloud and liked_words
    top_liked,          \* create_word_frequency_index: video_id -> its top_liked
    \* bookkeeping about the input that was presented (not program state)
    raw_comments,       \* the mapping parse_json_files returned
    referenced,         \* post -> ids that the entries of the loaded files reference
    after_malformed,    \* post -> ids of well-formed entries that follow a malformed
                        \* entry in the current file
    malformed_seen,     \* the current file had a malformed entry
    top_level,          \* the top level of the current file: "dict" or "list"
    from_list,          \* post -> ids that the entries of the current file
                        \* reference, when its top level is a list
    n_presented,        \* analyze: entries of the current file seen so far
    n_malformed,        \* analyze: malformed entries among them
    \* build_video_mapping.py
    dir_listing,        \* os.listdir(youtube_downloads_path): the file names
    videos,             \* the list in data/videos.json
    video_files,        \* main: the file infos find_video_files returned
    video_pos,          \* position of match_videos_to_files in videos
    mappings,           \* match_videos_to_files: ordered dict video_id -> entry
    matched_files,      \* match_videos_to_files: the file names already matched
    mapping_json,       \* {} or {content of data/video-mapping.json}
    \* the main() functions that read required input files
    inputs,             \* the input files and settings that exist
    outputs,            \* the output files written
    stages,             \* the stages main() has completed, in order
    db_log,             \* the statements sent to the database, in order
    \* CommentParser (parse_comments_to_db.py)
    db_file,            \* the file _parse_single_json read last
    comments_data,      \* self.comments_data: rows comment_id, post_shortcode
    seen_comment_ids,   \* self.seen_comment_ids
    \* RenderImporter (import_to_render.py)
    batch_size,         \* self.batch_size
    csv_rows,           \* number of data rows of the CSV file being imported
    row_pos,            \* the data row the reader yields next
    batch,              \* batch: the rows appended since the last insert
    imported            \* imported

orgVars == <<chunk_size, shortcode_comments, chunk_pos, total_comments, total_chunks,
             index_data, chunk_files, index_json, summary_json, loader_js, write_error>>
anVars == <<shortcode_to_comments, total_entries, error_entries,
            all_shortcodes_with_comments, shortcode_comment_counts, statistics>>
dbVars == <<db_index, db_cache, request, result>>
preVars == <<comments_json, video_comments_index, search_index, word_freq_index, top_liked>>
ghostVars == <<raw_comments, referenced, after_malformed, malformed_seen,
               top_level, from_list, n_presented, n_malformed>>
matchVars == <<dir_listing, videos, video_files, video_pos, mappings, matched_files,
              mapping_json>>
toolVars == <<inputs, outputs, stages, db_log, db_file, comments_data, seen_comment_ids,
             batch_size, csv_rows, row_pos, batch, imported>>
vars == <<script, pc, event, orgVars, anVars, dbVars, preVars, ghostVars, matchVars,
          toolVars>>

(***************************************************************************)
(* organize_comments_static.py: parse_json_files                           *)
(***************************************************************************)
\* shortcode_comments[shortcode].extend(comment_ids) on a defaultdict(list)
Extend(sc, shortcode, comment_ids) ==
    Put(sc, shortcode, GetOr(sc, shortcode, <<>>) \o comment_ids)

\* for log in <list>: if isinstance(log, dict): ... extend(storedIds)
RECURSIVE ExtendLogs(_, _, _)
ExtendLogs(sc, shortcode, items) ==
    IF items = <<>> THEN sc
    ELSE LET log == Head(items)
             next == IF log.isDict /\ log.idsIsList
                     THEN Extend(sc, shortcode, log.storedIds)
                     ELSE sc
         IN  ExtendLogs(next, shortcode, Tail(items))

\* some log of the list reaches shortcode_comments[shortcode]
HasIdList(items) == \E i \in DOMAIN items : items[i].isDict /\ items[i].idsIsList

\* body of `for uuid, entry in data.items()`: the mapping after the entry, and
\* whether the body raised (iterating a logs value that is null raises TypeError;
\* iterating a string yields characters, none of them a dict; a list as the key
\* of shortcode_comments raises TypeError)
OrganizeEntry(sc, e) ==
    IF ~e.isDict \/ ~Truthy(e.target) THEN [sc |-> sc, raised |-> FALSE]
    ELSE IF e.logs.kind = "null" THEN [sc |-> sc, raised |-> TRUE]
    ELSE IF e.logs.kind = "str" THEN [sc |-> sc, raised |-> FALSE]
    ELSE IF ~Hashable(e.target) /\ HasIdList(e.logs.items)
    THEN [sc |-> sc, raised |-> TRUE]
    ELSE [sc |-> ExtendLogs(sc, e.target, e.logs.items), raised |-> FALSE]

\* except Exception: print(...); continue
OnFileError_reset(sc) == <<>>
OnFileError(sc) == sc

(***************************************************************************)
(* deduplicate_comments                                                    *)
(***************************************************************************)
\* list(dict.fromkeys(comments))
RECURSIVE DedupList_keep_last(_)
DedupList_keep_last(comments) ==
    IF comments = <<>> THEN <<>>
    ELSE LET x == Head(comments)
             rest == DedupList_keep_last(Tail(comments))
         IN  IF x \in Range(rest) THEN rest ELSE <<x>> \o rest

DedupList_last_only(comments) ==
    IF comments = <<>> THEN <<>>
    ELSE LET x == comments[Len(comments)]
             front == SubSeq(comments, 1, Len(comments) - 1)
         IN  IF x \in Range(front) THEN front ELSE comments

RECURSIVE DedupList(_)
DedupList(comments) ==
    IF comments = <<>> THEN <<>>
    ELSE LET x == comments[Len(comments)]
             unique == DedupList(SubSeq(comments, 1, Len(comments) - 1))
         IN  IF x \in Range(unique) THEN unique ELSE Append(unique, x)

Deduplicate(sc) == [i \in DOMAIN sc |-> [k |-> sc[i].k, v |-> DedupList(sc[i].v)]]


(***************************************************************************)
(* create_chunked_files                                                    *)
(***************************************************************************)
\* for i in range(0, len(comments), self.chunk_size): the chunk_data records,
\* from 0-based position i on
RECURSIVE ChunksFrom_short(_, _, _, _)
ChunksFrom_short(shortcode, comments, size, i) ==
    IF i >= Len(comments) THEN <<>>
    ELSE LET chunk == Slice(comments, i, i + size - 1)
         IN  <<[shortcode |-> shortcode,
                chunk_index |-> i \div size,
                comment_ids |-> chunk,
                count |-> Len(chunk)]>>
             \o ChunksFrom_short(shortcode, comments, size, i + size)

RECURSIVE ChunksFrom(_, _, _, _)
ChunksFrom(shortcode, comments, size, i) ==
    IF i >= Len(comments) THEN <<>>
    ELSE LET chunk == Slice(comments, i, i + size)
         IN  <<[shortcode |-> shortcode,
                chunk_index |-> i \div size,
                comment_ids |-> chunk,
                count |-> Len(chunk)]>>
             \o ChunksFrom(shortcode, comments, size, i + size)

\* `if not comments: continue`
SkipPost_never(comments) == FALSE
SkipPost(comments) == comments = <<>>

\* 'posts/{shortcode}/chunk_{chunk_index}.json'
ChunkPath(shortcode, chunk_index) == <<shortcode, chunk_index>>

\* the descriptor appended to `chunks` for one chunk
Descriptor_capacity(c) ==
    [index |-> c.chunk_index, count |-> chunk_size,
     file |-> ChunkPath(c.shortcode, c.chunk_index)]
Descriptor(c) ==
    [index |-> c.chunk_index, count |-> c.count,
     file |-> ChunkPath(c.shortcode, c.chunk_index)]

\* the output directory after the chunk artifacts cs were written
WriteChunks(files, cs) ==
    LET new == {ChunkPath(cs[i].shortcode, cs[i].chunk_index) : i \in DOMAIN cs}
    IN  [path \in DOMAIN files \cup new |->
           IF path \in new
           THEN cs[CHOOSE i \in DOMAIN cs :
                     ChunkPath(cs[i].shortcode, cs[i].chunk_index) = path]
           ELSE files[path]]

\* self.index_data['posts'][shortcode] = {...}
PostDescriptor(comments, cs) ==
    [total_comments |-> Len(comments),
     chunks |-> [i \in DOMAIN cs |-> Descriptor(cs[i])],
     chunk_count |-> Len(cs)]

\* self.index_data['stats'] after the loop over the posts
Stats_one_chunk_each(posts, comments_total, chunks_total) ==
    [total_posts |-> Len(posts),
     total_comments |-> comments_total,
     total_chunks |-> Len(posts)]
Stats(posts, comments_total, chunks_total) ==
    [total_posts |-> Len(posts),
     total_comments |-> comments_total,
     total_chunks |-> chunks_total]

EmptyIndex ==
    [posts |-> <<>>,
     stats |-> [total_posts |-> 0, total_comments |-> 0, total_chunks |-> 0]]

(***************************************************************************)
(* create_index_files                                                      *)
(***************************************************************************)
\* post_list.sort(key=comment_count, reverse=True): stable, descending
RECURSIVE SortDesc_ties_reversed(_)
SortDesc_ties_reversed(post_list) ==
    IF post_list = <<>> THEN <<>>
    ELSE LET sorted == SortDesc_ties_reversed(SubSeq(post_list, 1, Len(post_list) - 1))
             x == post_list[Len(post_list)]
             before == {i \in DOMAIN sorted : sorted[i].comment_count > x.comment_count}
             n == Cardinality(before)
         IN  SubSeq(sorted, 1, n) \o <<x>> \o SubSeq(sorted, n + 1, Len(sorted))

RECURSIVE SortDesc(_)
SortDesc(post_list) ==
    IF post_list = <<>> THEN <<>>
    ELSE LET sorted == SortDesc(SubSeq(post_list, 1, Len(post_list) - 1))
             x == post_list[Len(post_list)]
             before == {i \in DOMAIN sorted : sorted[i].comment_count >= x.comment_count}
             n == Cardinality(before)
         IN  SubSeq(sorted, 1, n) \o <<x>> \o SubSeq(sorted, n + 1, Len(sorted))

PostList(posts) ==
    [i \in DOMAIN posts |->
       [shortcode |-> posts[i].k, comment_count |-> posts[i].v.total_comments]]

Summary(idx) == [posts |-> SortDesc(PostList(idx.posts)), stats |-> idx.stats]


(***************************************************************************)
(* analyze_comments.py: analyze_json_file                                  *)
(***************************************************************************)
\* shortcode_to_comments[shortcode].update(comment_ids) on a defaultdict(set)
Update(stc, shortcode, comment_ids) ==
    [p \in DOMAIN stc \cup {shortcode} |->
       (IF p \in DOMAIN stc THEN stc[p] ELSE {})
       \cup (IF p = shortcode THEN Range(comment_ids) ELSE {})]

\* for log in logs: if isinstance(log, dict): ... update(storedIds)
RECURSIVE UpdateLogs(_, _, _)
UpdateLogs(stc, shortcode, items) ==
    IF items = <<>> THEN stc
    ELSE LET log == Head(items)
             next == IF log.isDict /\ log.idsIsList
                     THEN Update(stc, shortcode, log.storedIds)
                     ELSE stc
         IN  UpdateLogs(next, shortcode, Tail(items))

\* body of `for key, entry in items`, on the locals of analyze_json_file (a
\* list as the key of shortcode_to_comments raises TypeError, which the
\* entry's own handler counts)
AnalyzeEntry(st, e) ==
    IF ~e.isDict
    THEN [st EXCEPT !.total_entries = @ + 1, !.error_entries = @ + 1]
    ELSE IF Truthy(e.target) /\ e.logs.kind = "list"
    THEN IF ~Hashable(e.target) /\ HasIdList(e.logs.items)
         THEN [st EXCEPT !.total_entries = @ + 1, !.error_entries = @ + 1]
         ELSE [st EXCEPT !.total_entries = @ + 1,
                         !.stc = UpdateLogs(@, e.target, e.logs.items)]
    ELSE [st EXCEPT !.total_entries = @ + 1]

\* main: shortcode_comment_counts[shortcode] += len(comments), for every
\* shortcode of the file's mapping
AddCounts(counts, stc) ==
    [p \in DOMAIN counts \cup DOMAIN stc |->
       (IF p \in DOMAIN counts THEN counts[p] ELSE 0)
       + (IF p \in DOMAIN stc THEN Cardinality(stc[p]) ELSE 0)]

\* the sum of the counts
RECURSIVE SumCounts(_)
SumCounts(counts) ==
    IF DOMAIN counts = {} THEN 0
    ELSE LET p == CHOOSE x \in DOMAIN counts : TRUE
         IN  counts[p] + SumCounts([q \in DOMAIN counts \ {p} |-> counts[q]])

\* main, on a file for which analyze_json_file returned None
OnAnalyzeError_reset(counts) == EmptyFn
OnAnalyzeError(counts) == counts

(***************************************************************************)
(* preindex_comments.py                                                    *)
(*                                                                         *)
(* An engagement record carries comment_id, video_id, like_count,          *)
(* published_at_timestamp and text.  A text is the sequence of its         *)
(* whitespace-separated tokens:                                            *)
(*   "aaa", "bbb"  words of three letters                                  *)
(*   "AAA"         the word "aaa" in upper case                            *)
(*   "the"         a stop word                                             *)
(*   "ab"          a run of two letters                                    *)
(***************************************************************************)
WordCloudSize == 20    \* word_counts.most_common(20)
LikedWordsSize == 15   \* liked_word_averages[:15]

Texts ==
    {<<>>, <<"aaa">>, <<"aaa", "aaa">>, <<"aaa", "bbb">>, <<"the", "bbb">>,
     <<"ab", "AAA">>}

Record(video_id, like_count, stamp, text) ==
    [video_id |-> video_id, like_count |-> like_count,
     published_at_timestamp |-> stamp, text |-> text]

\* records without text whose sort keys vary; video "W" has one kind of record
SortRecords ==
    {Record("V", l, t, <<>>) : l \in 0..MaxLikes, t \in 0..MaxStamp}
    \cup {Record("W", 1, 0, <<>>)}
SortInputs == UNION {[1..n -> SortRecords] : n \in 0..MaxRecords}

\* records of video "V" whose like count and text vary, followed by liked
\* records without text
LikedRecords == {Record("V", l, 0, x) : l \in 0..MaxLikes, x \in Texts}
Filler == Record("V", 1, 0, <<>>)
VariedSeqs ==
    {<<>>} \cup {<<a>> : a \in LikedRecords}
           \cup {<<a, b>> : a \in LikedRecords, b \in LikedRecords}
LikedInputs == {v \o [i \in 1..n |-> Filler] : v \in VariedSeqs, n \in 0..MaxFiller}

\* records of video "V" whose texts hold one word more than the word cloud
\* takes, and a record that repeats the last of them
ManyWords ==
    <<"xaa", "xab", "xac", "xad", "xae", "xaf", "xag", "xah", "xai", "xaj", "xak",
      "xal", "xam", "xan", "xao", "xap", "xaq", "xar", "xas", "xat", "xau">>
CloudTexts == {ManyWords, <<"xau">>, <<"xau", "the", "xaa", "xau">>}
CloudRecords == {Record("V", 0, 0, x) : x \in CloudTexts}
CloudInputs == {<<a>> : a \in CloudRecords}
               \cup {<<a, b>> : a \in CloudRecords, b \in CloudRecords}

\* the contents data/comments.json can have: comment_id is the position
EngagementInputs ==
    {[i \in DOMAIN s |->
        [comment_id |-> i, video_id |-> s[i].video_id, like_count |-> s[i].like_count,
         published_at_timestamp |-> s[i].published_at_timestamp, text |-> s[i].text]] :
       s \in SortInputs \cup LikedInputs \cup CloudInputs}

\* sorted(s, key=...): ascending in the keys, stable; keys[i] is the key of s[i]
StableSort(s, keys) ==
    LET pos(i) == 1 + Cardinality({j \in DOMAIN s :
                                      \/ keys[j] < keys[i]
                                      \/ keys[j] = keys[i] /\ j < i})
    IN  [q \in DOMAIN s |-> s[CHOOSE i \in DOMAIN s : pos(i) = q]]

\* video_comments[video_id].append(comment) on a defaultdict(list)
RECURSIVE GroupByVideo(_)
GroupByVideo(cs) ==
    IF cs = <<>> THEN <<>>
    ELSE LET g == GroupByVideo(SubSeq(cs, 1, Len(cs) - 1))
             c == cs[Len(cs)]
         IN  Put(g, c.video_id, Append(GetOr(g, c.video_id, <<>>), c))

\* sorted(comment_list, key=lambda x: (-like_count, -published_at_timestamp)):
\* the order of the pairs is the stable order by the second component, then
\* stably reordered by the first
SortedComments_by_likes(comment_list) ==
    StableSort(comment_list, [i \in DOMAIN comment_list |-> -comment_list[i].like_count])
SortedComments(comment_list) ==
    LET by_date == StableSort(comment_list,
                              [i \in DOMAIN comment_list |->
                                 -comment_list[i].published_at_timestamp])
    IN  StableSort(by_date, [i \in DOMAIN by_date |-> -by_date[i].like_count])

create_video_comment_index(cs) ==
    LET video_comments == GroupByVideo(cs)
    IN  [i \in DOMAIN video_comments |->
           [k |-> video_comments[i].k, v |-> SortedComments(video_comments[i].v)]]

\* str.lower()
Lower(t) == IF t = "AAA" THEN "aaa" ELSE t

\* the stop words among the tokens
stop_words == {"the"}

\* re.findall(r'\b[a-zA-Z]{3,}\b', text.lower())
FindWords(text) ==
    LET ThreeLetters(t) == t # "ab"
    IN  SelectSeq([i \in DOMAIN text |-> Lower(text[i])], ThreeLetters)

\* [word for word in words if word not in stop_words]
FilteredWords(words) ==
    LET Kept(t) == t \notin stop_words
    IN  SelectSeq(words, Kept)

\* search_index[comment_id] = {...}; the author's display name is empty
create_search_index(cs) ==
    [id \in {cs[i].comment_id : i \in DOMAIN cs} |->
       LET c == cs[CHOOSE i \in DOMAIN cs :
                     /\ cs[i].comment_id = id
                     /\ \A j \in DOMAIN cs : cs[j].comment_id = id => j <= i]
       IN  [words |-> [j \in DOMAIN c.text |-> Lower(c.text[j])],
            text |-> c.text,
            video_id |-> c.video_id,
            like_count |-> c.like_count,
            published_at_timestamp |-> c.published_at_timestamp]]

\* Counter(filtered_words)
RECURSIVE WordCounts(_)
WordCounts(words) ==
    IF words = <<>> THEN <<>>
    ELSE LET counts == WordCounts(SubSeq(words, 1, Len(words) - 1))
             word == words[Len(words)]
         IN  Put(counts, word, GetOr(counts, word, 0) + 1)

\* word_counts.most_common(n)
MostCommon_insertion_order(word_counts, n) == Slice(word_counts, 0, n)
MostCommon(word_counts, n) ==
    Slice(StableSort(word_counts, [i \in DOMAIN word_counts |-> -word_counts[i].v]),
          0, n)

\* sorted([c for c in video_comment_list if like_count > 0], key=like_count,
\* reverse=True)
LikedComments(video_comment_list) ==
    LET Liked(c) == c.like_count > 0
        liked == SelectSeq(video_comment_list, Liked)
    IN  StableSort(liked, [i \in DOMAIN liked |-> -liked[i].like_count])

\* top_20_percent = max(1, len(liked_comments) // 5)
Top20Percent(n) == Max(1, n \div 5)

\* liked_comments[:top_20_percent]
TopLiked(video_comment_list) ==
    LET liked_comments == LikedComments(video_comment_list)
    IN  Slice(liked_comments, 0, Top20Percent(Len(liked_comments)))

\* for word in comment_words: if word not in stop_words:
\*     word_like_totals[word].append(like_count)
RECURSIVE AppendLikes(_, _, _)
AppendLikes(word_like_totals, comment_words, like_count) ==
    IF comment_words = <<>> THEN word_like_totals
    ELSE LET word == Head(comment_words)
             next == IF word \notin stop_words
                     THEN Put(word_like_totals, word,
                              Append(GetOr(word_like_totals, word, <<>>), like_count))
                     ELSE word_like_totals
         IN  AppendLikes(next, Tail(comment_words), like_count)

\* for comment in top_liked: ...
RECURSIVE WordLikeTotals(_)
WordLikeTotals(top) ==
    IF top = <<>> THEN <<>>
    ELSE LET comment == top[Len(top)]
         IN  AppendLikes(WordLikeTotals(SubSeq(top, 1, Len(top) - 1)),
                         FindWords(comment.text), comment.like_count)

\* round(num / den) of Python 3: to the nearest integer, a half to the even one
Round(num, den) ==
    LET q == num \div den
        r == num % den
    IN  IF 2 * r < den THEN q
        ELSE IF 2 * r > den THEN q + 1
        ELSE IF q % 2 = 0 THEN q ELSE q + 1

\* liked_word_averages, in the order of word_like_totals
LikedWordAverages(word_like_totals) ==
    LET Twice(x) == Len(x.v) >= 2
        kept == SelectSeq(word_like_totals, Twice)
    IN  [i \in DOMAIN kept |->
           [word |-> kept[i].k,
            avgLikes |-> Round(SumSeq(kept[i].v), Len(kept[i].v)),
            count |-> Len(kept[i].v)]]

\* liked_word_averages.sort(key=avg, reverse=True); [:15]; [] without top_liked
LikedWords(top) ==
    LET averages == LikedWordAverages(WordLikeTotals(top))
    IN  IF top = <<>> THEN <<>>
        ELSE Slice(StableSort(averages, [i \in DOMAIN averages |-> -averages[i].avgLikes]),
                   0, LikedWordsSize)

\* ' '.join(texts), tokenized and filtered, counted, the most common kept
WordCloud(video_comment_list) ==
    LET all_text == Concat([i \in DOMAIN video_comment_list |->
                              video_comment_list[i].text])
        top_words == MostCommon(WordCounts(FilteredWords(FindWords(all_text))),
                                WordCloudSize)
    IN  [i \in DOMAIN top_words |-> [word |-> top_words[i].k, count |-> top_words[i].v]]

create_word_frequency_index(cs) ==
    LET video_comments == GroupByVideo(cs)
    IN  [i \in DOMAIN video_comments |->
           [k |-> video_comments[i].k,
            v |-> [word_cloud |-> WordCloud(video_comments[i].v),
                   liked_words |-> LikedWords(TopLiked(video_comments[i].v))]]]

\* the local top_liked of every iteration of create_word_frequency_index
TopLikedOf(cs) ==
    LET video_comments == GroupByVideo(cs)
    IN  [i \in DOMAIN video_comments |->
           [k |-> video_comments[i].k, v |-> TopLiked(video_comments[i].v)]]

(***************************************************************************)
(* Initial states.                                                         *)
(***************************************************************************)
\* an artifact an earlier run may have left in the output directory
StaleChunk == [shortcode |-> "Q", chunk_index |-> 1, comment_ids |-> <<1>>, count |-> 1]
StaleFiles == WriteChunks(EmptyFn, <<StaleChunk>>)

NoRequest == [shortcode |-> "", page |-> 0, limit |-> 0, failed |-> {},
              attempted |-> {}, fetched |-> {}]
NoResult == [comments |-> <<>>, total |-> 0, hasMore |-> FALSE]

OrganizeIdle ==
    /\ shortcode_comments = <<>>
    /\ chunk_pos = 1
    /\ total_comments = 0
    /\ total_chunks = 0
    /\ index_data = EmptyIndex
    /\ index_json = {}
    /\ summary_json = {}
    /\ loader_js = FALSE
    /\ write_error = {}

AnalyzeIdle ==
    /\ shortcode_to_comments = EmptyFn
    /\ total_entries = 0
    /\ error_entries = 0
    /\ all_shortcodes_with_comments = {}
    /\ shortcode_comment_counts = EmptyFn
    /\ statistics = {}

LoaderIdle ==
    /\ db_index = {}
    /\ db_cache = EmptyFn
    /\ request = NoRequest
    /\ result = NoResult

PreindexIdle ==
    /\ comments_json = <<>>
    /\ video_comments_index = <<>>
    /\ search_index = EmptyFn
    /\ word_freq_index = <<>>
    /\ top_liked = <<>>

MatchIdle ==
    /\ dir_listing = <<>>
    /\ videos = <<>>
    /\ video_files = <<>>
    /\ video_pos = 1
    /\ mappings = <<>>
    /\ matched_files = {}
    /\ mapping_json = {}

ToolsIdle ==
    /\ inputs = {}
    /\ outputs = {}
    /\ stages = <<>>
    /\ db_log = <<>>
    /\ db_file = [kind |-> "none", entries |-> <<>>]
    /\ comments_data = <<>>
    /\ seen_comment_ids = {}
    /\ batch_size = 1
    /\ csv_rows = 0
    /\ row_pos = 1
    /\ batch = <<>>
    /\ imported = 0

GhostInit ==
    /\ raw_comments = <<>>
    /\ referenced = NoIds
    /\ after_malformed = NoIds
    /\ malformed_seen = FALSE
    /\ top_level = "dict"
    /\ from_list = NoIds
    /\ n_presented = 0
    /\ n_malformed = 0

\* StaticCommentOrganizer.__init__, before process()
Init ==
    /\ script = "organize"
    /\ pc = "clean"
    /\ event = "init"
    /\ chunk_size \in 1..MaxChunk
    /\ chunk_files \in {EmptyFn, StaleFiles}
    /\ OrganizeIdle
    /\ AnalyzeIdle
    /\ LoaderIdle
    /\ PreindexIdle
    /\ MatchIdle
    /\ ToolsIdle
    /\ GhostInit

\* either parser, about to read its first input file
InitParse ==
    /\ script \in {"organize", "analyze"}
    /\ pc = IF script = "organize" THEN "parse" ELSE "a_main"
    /\ event = "init"
    /\ chunk_size = MaxChunk
    /\ chunk_files = EmptyFn
    /\ OrganizeIdle
    /\ AnalyzeIdle
    /\ LoaderIdle
    /\ PreindexIdle
    /\ MatchIdle
    /\ ToolsIdle
    /\ GhostInit

(***************************************************************************)
(* parse_json_files, entry by entry (SpecParse)                            *)
(***************************************************************************)
inputGhosts == <<referenced, after_malformed, malformed_seen, top_level, from_list,
                 n_presented, n_malformed>>

SumCard(m) == SumSeq([i \in DOMAIN PostSeq |-> Cardinality(m[PostSeq[i]])])

\* the bookkeeping when the current file presents entry e
Present(e) ==
    /\ referenced' = IF Referencing(e) THEN AddIds(referenced, e) ELSE referenced
    /\ after_malformed' = IF malformed_seen /\ WellFormed(e)
                          THEN AddIds(after_malformed, e)
                          ELSE after_malformed
    /\ malformed_seen' = (malformed_seen \/ Malformed(e))
    /\ from_list' = IF top_level = "list" /\ Referencing(e)
                    THEN AddIds(from_list, e)
                    ELSE from_list
    /\ top_level' = top_level

\* a file for which json.load raises: except, continue
ParseBadFile ==
    /\ script = "organize" /\ pc = "parse"
    /\ shortcode_comments' = OnFileError(shortcode_comments)
    /\ event' = "bad_json"
    /\ UNCHANGED <<script, pc, chunk_size, chunk_pos, total_comments, total_chunks,
                   index_data, chunk_files, index_json, summary_json, loader_js,
                   write_error, anVars, dbVars, preVars, ghostVars,
                   matchVars, toolVars>>

\* a file that json.load accepts: enter `for uuid, entry in data.items()`
ParseOpenFile ==
    /\ script = "organize" /\ pc = "parse"
    /\ pc' = "in_file"
    /\ event' = "open"
    /\ UNCHANGED <<script, orgVars, anVars, dbVars, preVars, ghostVars,
                   matchVars, toolVars>>

\* a file whose top level is a list: json.load accepts it, data.items() raises
\* AttributeError, and the handler of the file goes on to the next file
ParseOpenListFile ==
    /\ script = "organize" /\ pc = "parse"
    /\ shortcode_comments' = OnFileError(shortcode_comments)
    /\ top_level' = "list"
    /\ pc' = "aborted_file"
    /\ event' = "list_file"
    /\ UNCHANGED <<script, chunk_size, chunk_pos, total_comments, total_chunks,
                   index_data, chunk_files, index_json, summary_json, loader_js,
                   write_error, anVars, dbVars, preVars, raw_comments, referenced,
                   after_malformed, malformed_seen, from_list, n_presented,
                   n_malformed, matchVars, toolVars>>

\* one iteration of `for uuid, entry in data.items()`; an exception leaves the loop
\* for the handler of the file
ParseEntry(e) ==
    /\ script = "organize" /\ pc = "in_file"
    /\ LET r == OrganizeEntry(shortcode_comments, e)
       IN  /\ TotalLen(r.sc) <= MaxParsed
           /\ shortcode_comments' =
                 IF r.raised THEN OnFileError(shortcode_comments) ELSE r.sc
           /\ pc' = IF r.raised THEN "aborted_file" ELSE "in_file"
           /\ event' = IF r.raised THEN "raised" ELSE "entry"
    /\ Present(e)
    /\ UNCHANGED <<script, chunk_size, chunk_pos, total_comments, total_chunks,
                   index_data, chunk_files, index_json, summary_json, loader_js,
                   write_error, anVars, dbVars, preVars, raw_comments, n_presented, n_malformed,
                   matchVars, toolVars>>

\* a well-formed entry of the file that the loop, left by an exception, never reaches
UnreadEntry(e) ==
    /\ script = "organize" /\ pc = "aborted_file"
    /\ WellFormed(e)
    /\ SumCard(AddIds(referenced, e)) <= MaxParsed
    /\ Present(e)
    /\ event' = "unread"
    /\ UNCHANGED <<script, pc, orgVars, anVars, dbVars, preVars, raw_comments,
                   n_presented, n_malformed, matchVars, toolVars>>

\* the file is exhausted (or was abandoned): next file
ParseCloseFile ==
    /\ script = "organize" /\ pc \in {"in_file", "aborted_file"}
    /\ pc' = "parse"
    /\ event' = "close"
    /\ after_malformed' = NoIds
    /\ malformed_seen' = FALSE
    /\ top_level' = "dict"
    /\ from_list' = NoIds
    /\ UNCHANGED <<script, orgVars, anVars, dbVars, preVars, raw_comments, referenced,
                   n_presented, n_malformed, matchVars, toolVars>>

\* no file is left: parse_json_files returns shortcode_comments
ParseReturn ==
    /\ script = "organize" /\ pc = "parse"
    /\ raw_comments' = shortcode_comments
    /\ pc' = "dedup"
    /\ event' = "parsed"
    /\ UNCHANGED <<script, orgVars, anVars, dbVars, preVars, inputGhosts,
                   matchVars, toolVars>>


\* deduplicate_comments
DeduplicateComments ==
    /\ script = "organize" /\ pc = "dedup"
    /\ shortcode_comments' = Deduplicate(shortcode_comments)
    /\ pc' = "chunk"
    /\ event' = "dedup"
    /\ UNCHANGED <<script, chunk_size, chunk_pos, total_comments, total_chunks,
                   index_data, chunk_files, index_json, summary_json, loader_js,
                   write_error, anVars, dbVars, preVars, ghostVars,
                   matchVars, toolVars>>

(***************************************************************************)
(* analyze_comments.py, entry by entry (SpecParse)                         *)
(***************************************************************************)
\* analyze_json_file on a file for which json.load raises returns
\* (None, None, 0); main's `if shortcode_to_comments:` then skips the file
AnalyzeBadFile ==
    /\ script = "analyze" /\ pc = "a_main"
    /\ shortcode_comment_counts' = OnAnalyzeError(shortcode_comment_counts)
    /\ event' = "bad_json"
    /\ UNCHANGED <<script, pc, orgVars, shortcode_to_comments, total_entries,
                   error_entries, all_shortcodes_with_comments, statistics,
                   dbVars, preVars, ghostVars, matchVars, toolVars>>

\* analyze_json_file on a file that json.load accepts, a dict or a list, whose
\* items are then (key, entry) pairs alike: fresh locals
AnalyzeOpenFile ==
    /\ script = "analyze" /\ pc = "a_main"
    /\ top_level' \in {"dict", "list"}
    /\ from_list' = NoIds
    /\ shortcode_to_comments' = EmptyFn
    /\ total_entries' = 0
    /\ error_entries' = 0
    /\ n_presented' = 0
    /\ n_malformed' = 0
    /\ after_malformed' = NoIds
    /\ malformed_seen' = FALSE
    /\ pc' = "a_file"
    /\ event' = "open"
    /\ UNCHANGED <<script, orgVars, all_shortcodes_with_comments,
                   shortcode_comment_counts, statistics, dbVars, preVars, raw_comments,
                   referenced, matchVars, toolVars>>

\* one iteration of `for key, entry in items`
AnalyzeStep(e) ==
    /\ script = "analyze" /\ pc = "a_file"
    /\ total_entries < MaxEntries
    /\ LET st == AnalyzeEntry([stc |-> shortcode_to_comments,
                               total_entries |-> total_entries,
                               error_entries |-> error_entries], e)
       IN  /\ shortcode_to_comments' = st.stc
           /\ total_entries' = st.total_entries
           /\ error_entries' = st.error_entries
    /\ Present(e)
    /\ n_presented' = n_presented + 1
    /\ n_malformed' = n_malformed + (IF Malformed(e) THEN 1 ELSE 0)
    /\ event' = "entry"
    /\ UNCHANGED <<script, pc, orgVars, all_shortcodes_with_comments,
                   shortcode_comment_counts, statistics, dbVars, preVars, raw_comments,
                   matchVars, toolVars>>

\* analyze_json_file returns; main aggregates the file's mapping when it has a key
AnalyzeReturn ==
    /\ script = "analyze" /\ pc = "a_file"
    /\ LET counts == AddCounts(shortcode_comment_counts, shortcode_to_comments)
       IN  /\ SumCounts(counts) <= MaxParsed
           /\ shortcode_comment_counts' = counts
    /\ all_shortcodes_with_comments' =
          all_shortcodes_with_comments \cup DOMAIN shortcode_to_comments
    /\ pc' = "a_main"
    /\ event' = "close"
    /\ UNCHANGED <<script, orgVars, shortcode_to_comments, total_entries, error_entries,
                   statistics, dbVars, preVars, ghostVars, matchVars, toolVars>>

\* main after the last file: comment_statistics.json with top_commented_posts
\* (with at most 20 posts none is cut off)
AnalyzeReport ==
    /\ script = "analyze" /\ pc = "a_main"
    /\ statistics' = {shortcode_comment_counts}
    /\ pc' = "a_done"
    /\ event' = "report"
    /\ UNCHANGED <<script, orgVars, shortcode_to_comments, total_entries, error_entries,
                   all_shortcodes_with_comments, shortcode_comment_counts,
                   dbVars, preVars, ghostVars, matchVars, toolVars>>

\* shutil.rmtree(self.output_dir), then os.makedirs of the directory and posts/
RemoveTree_keeps_posts(files) == files
RemoveTree(files) == EmptyFn

(***************************************************************************)
(* StaticCommentOrganizer.process (Spec)                                   *)
(***************************************************************************)
\* clean_output_directory: rmtree, then makedirs
CleanOutputDirectory ==
    /\ script = "organize" /\ pc = "clean"
    /\ chunk_files' = RemoveTree(chunk_files)
    /\ index_json' = {}
    /\ summary_json' = {}
    /\ loader_js' = FALSE
    /\ pc' = "parse"
    /\ event' = "clean"
    /\ UNCHANGED <<script, chunk_size, shortcode_comments, chunk_pos, total_comments,
                   total_chunks, index_data, write_error, anVars, dbVars, preVars, ghostVars,
                   matchVars, toolVars>>

\* the mappings parse_json_files can return: any insertion order of the posts,
\* any list of identifiers per post
IdLists == UNION {[1..n -> CommentIds] : n \in 0..MaxTotal}
ParseResults ==
    {<<>>}
    \cup {<<[k |-> p, v |-> l]>> : p \in Posts, l \in IdLists}
    \cup {<<[k |-> pq[1], v |-> ll[1]], [k |-> pq[2], v |-> ll[2]]>> :
            pq \in {x \in Posts \X Posts : x[1] # x[2]},
            ll \in {y \in IdLists \X IdLists : Len(y[1]) + Len(y[2]) <= MaxTotal}}

\* parse_json_files as one step
ParseJsonFiles ==
    /\ script = "organize" /\ pc = "parse" /\ event = "clean"
    /\ \E m \in ParseResults :
          /\ shortcode_comments' = m
          /\ raw_comments' = m
    /\ pc' = "dedup"
    /\ event' = "parsed"
    /\ UNCHANGED <<script, chunk_size, chunk_pos, total_comments, total_chunks,
                   index_data, chunk_files, index_json, summary_json, loader_js,
                   write_error, anVars, dbVars, preVars, inputGhosts,
                   matchVars, toolVars>>

\* create_chunked_files, one iteration of `for shortcode, comments in ...items()`
\* in which every write succeeds
ChunkPost ==
    /\ script = "organize" /\ pc = "chunk"
    /\ chunk_pos <= Len(shortcode_comments)
    /\ LET shortcode == shortcode_comments[chunk_pos].k
           comments == shortcode_comments[chunk_pos].v
           cs == ChunksFrom(shortcode, comments, chunk_size, 0)
       IN  IF SkipPost(comments)
           THEN /\ event' = "empty_post"
                /\ UNCHANGED <<chunk_files, index_data, total_comments, total_chunks>>
           ELSE /\ chunk_files' = WriteChunks(chunk_files, cs)
                /\ index_data' =
                      [index_data EXCEPT
                         !.posts = Put(@, shortcode, PostDescriptor(comments, cs))]
                /\ total_comments' = total_comments + Len(comments)
                /\ total_chunks' = total_chunks + Len(cs)
                /\ event' = "chunked"
    /\ chunk_pos' = chunk_pos + 1
    /\ UNCHANGED <<script, pc, chunk_size, shortcode_comments, index_json, summary_json,
                   loader_js, write_error, anVars, dbVars, preVars, ghostVars,
                   matchVars, toolVars>>

\* the same iteration when os.makedirs or the write of chunk number `written`
\* raises: nothing catches it, the exception leaves process()
ChunkPostFails ==
    /\ script = "organize" /\ pc = "chunk"
    /\ chunk_pos <= Len(shortcode_comments)
    /\ LET shortcode == shortcode_comments[chunk_pos].k
           comments == shortcode_comments[chunk_pos].v
           cs == ChunksFrom(shortcode, comments, chunk_size, 0)
       IN  /\ comments # <<>>
           /\ \E written \in 0..(Len(cs) - 1) :
                 /\ chunk_files' = WriteChunks(chunk_files, SubSeq(cs, 1, written))
                 /\ total_chunks' = total_chunks + written
           /\ write_error' = write_error \cup {shortcode}
    /\ pc' = "crashed"
    /\ event' = "write_failed"
    /\ UNCHANGED <<script, chunk_size, shortcode_comments, chunk_pos, total_comments,
                   index_data, index_json, summary_json, loader_js,
                   anVars, dbVars, preVars, ghostVars, matchVars, toolVars>>

\* create_chunked_files after the loop: the run-level stats
ChunkReturn ==
    /\ script = "organize" /\ pc = "chunk"
    /\ chunk_pos > Len(shortcode_comments)
    /\ index_data' =
          [index_data EXCEPT
             !.stats = Stats(index_data.posts, total_comments, total_chunks)]
    /\ pc' = "index"
    /\ event' = "chunks_done"
    /\ UNCHANGED <<script, chunk_size, shortcode_comments, chunk_pos, total_comments,
                   total_chunks, chunk_files, index_json, summary_json, loader_js,
                   write_error, anVars, dbVars, preVars, ghostVars,
                   matchVars, toolVars>>

\* create_index_files: index.json, then summary.json
CreateIndexFiles ==
    /\ script = "organize" /\ pc = "index"
    /\ index_json' = {index_data}
    /\ summary_json' = {Summary(index_data)}
    /\ pc' = "loader_script"
    /\ event' = "indexed"
    /\ UNCHANGED <<script, chunk_size, shortcode_comments, chunk_pos, total_comments,
                   total_chunks, index_data, chunk_files, loader_js, write_error,
                   anVars, dbVars, preVars, ghostVars, matchVars, toolVars>>

\* create_loader_script and the size report that ends process()
CreateLoaderScript ==
    /\ script = "organize" /\ pc = "loader_script"
    /\ loader_js' = TRUE
    /\ pc' = "done"
    /\ event' = "finished"
    /\ UNCHANGED <<script, chunk_size, shortcode_comments, chunk_pos, total_comments,
                   total_chunks, index_data, chunk_files, index_json, summary_json,
                   write_error, anVars, dbVars, preVars, ghostVars,
                   matchVars, toolVars>>

(***************************************************************************)
(* The artifacts of a complete run of create_chunked_files and             *)
(* create_index_files on a mapping: what the loader is served.             *)
(***************************************************************************)
RECURSIVE IndexedPosts(_, _)
IndexedPosts(sc, size) ==
    IF sc = <<>> THEN <<>>
    ELSE LET done == IndexedPosts(SubSeq(sc, 1, Len(sc) - 1), size)
             post == sc[Len(sc)]
         IN  IF SkipPost(post.v) THEN done
             ELSE Put(done, post.k,
                      PostDescriptor(post.v, ChunksFrom(post.k, post.v, size, 0)))

RECURSIVE WrittenChunks(_, _)
WrittenChunks(sc, size) ==
    IF sc = <<>> THEN EmptyFn
    ELSE WriteChunks(WrittenChunks(SubSeq(sc, 1, Len(sc) - 1), size),
                     ChunksFrom(sc[Len(sc)].k, sc[Len(sc)].v, size, 0))

WrittenIndex(sc, size) ==
    LET posts == IndexedPosts(sc, size)
    IN  [posts |-> posts,
         stats |-> [total_posts |-> Len(posts),
                    total_comments |->
                       SumSeq([i \in DOMAIN posts |-> posts[i].v.total_comments]),
                    total_chunks |->
                       SumSeq([i \in DOMAIN posts |-> posts[i].v.chunk_count])]]

\* the mappings the loader's database is built from: a deduplicated list is
\* determined by its length up to the names of the identifiers
ServedMappings ==
    LET listP(n) == <<[k |-> "P", v |-> [i \in 1..n |-> i]]>>
    IN  {listP(n) : n \in 1..NumIds}
        \cup {listP(n) \o <<[k |-> "Q", v |-> <<1>>]>> : n \in 1..NumIds}

\* new CommentDatabase(path) on the output of a run of the organizer
InitLoader ==
    /\ script = "loader"
    /\ pc = "serving"
    /\ event = "init"
    /\ chunk_size \in 1..MaxChunk
    /\ \E m \in ServedMappings :
          /\ shortcode_comments = Deduplicate(m)
          /\ raw_comments = m
          /\ chunk_files = WrittenChunks(Deduplicate(m), chunk_size)
          /\ index_data = WrittenIndex(Deduplicate(m), chunk_size)
    /\ index_json = {index_data}
    /\ summary_json = {Summary(index_data)}
    /\ loader_js = TRUE
    /\ chunk_pos = Len(shortcode_comments) + 1
    /\ total_comments = index_data.stats.total_comments
    /\ total_chunks = index_data.stats.total_chunks
    /\ write_error = {}
    /\ AnalyzeIdle
    /\ LoaderIdle
    /\ PreindexIdle
    /\ MatchIdle
    /\ ToolsIdle
    /\ referenced = NoIds
    /\ after_malformed = NoIds
    /\ malformed_seen = FALSE
    /\ top_level = "dict"
    /\ from_list = NoIds
    /\ n_presented = 0
    /\ n_malformed = 0

(***************************************************************************)
(* CommentDatabase (the JavaScript of create_loader_script)                *)
(***************************************************************************)
\* `for (const chunk of postData.chunks)`: the descriptors whose range
\* [currentIndex, currentIndex + count) overlaps [startIndex, endIndex)
NeededChunks_all(chunks, currentIndex, startIndex, endIndex) == chunks

RECURSIVE NeededChunks(_, _, _, _)
NeededChunks(chunks, currentIndex, startIndex, endIndex) ==
    IF chunks = <<>> THEN <<>>
    ELSE LET chunk == Head(chunks)
             chunkEnd == currentIndex + chunk.count
             rest == NeededChunks(Tail(chunks), chunkEnd, startIndex, endIndex)
         IN  IF currentIndex < endIndex /\ chunkEnd > startIndex
             THEN <<chunk>> \o rest
             ELSE rest

\* `for (const chunk of neededChunks)`: the cache and the comments array after
\* the loop, when the fetches of the chunk indices in `failed` throw; attempted
\* and fetched are the files the loop called fetch() for, and those it got
RECURSIVE LoadChunks(_, _, _, _)
LoadChunks(st, needed, files, failed) ==
    IF needed = <<>> THEN st
    ELSE LET chunk == Head(needed)
             cached == chunk.file \in DOMAIN st.cache
             fetched == ~cached /\ chunk.index \notin failed
                        /\ chunk.file \in DOMAIN files
             cache == IF fetched
                      THEN [f \in DOMAIN st.cache \cup {chunk.file} |->
                              IF f = chunk.file THEN files[f].comment_ids
                              ELSE st.cache[f]]
                      ELSE st.cache
             comments == IF cached \/ fetched
                         THEN st.comments \o cache[chunk.file]
                         ELSE st.comments
         IN  LoadChunks([cache |-> cache, comments |-> comments,
                         attempted |-> IF cached THEN st.attempted
                                       ELSE st.attempted \cup {chunk.file},
                         fetched |-> IF fetched THEN st.fetched \cup {chunk.file}
                                     ELSE st.fetched],
                        Tail(needed), files, failed)

\* initialize(): fetch index.json
Initialize ==
    /\ script = "loader"
    /\ \/ /\ db_index' = index_json
          /\ event' = "index_loaded"
       \/ /\ db_index' = db_index
          /\ event' = "index_failed"
    /\ UNCHANGED <<script, pc, orgVars, anVars, preVars, db_cache, request, result, ghostVars,
                   matchVars, toolVars>>

\* hasMore: endIndex < postData.total_comments
HasMore_inclusive(endIndex, total) == endIndex <= total
HasMore(endIndex, total) == endIndex < total

\* getCommentsForPost(shortcode, page, limit)
\* `failed`: the chunk indices whose fetch throws during the call
GetCommentsForPost(shortcode, page, limit) ==
    /\ script = "loader"
    /\ event' = "get"
    /\ IF db_index = {} \/ shortcode \notin Keys((CHOOSE x \in db_index : TRUE).posts)
       THEN /\ request' = [shortcode |-> shortcode, page |-> page, limit |-> limit,
                           failed |-> {}, attempted |-> {}, fetched |-> {}]
            /\ result' = [comments |-> <<>>, total |-> 0, hasMore |-> FALSE]
            /\ db_cache' = db_cache
       ELSE LET index == CHOOSE x \in db_index : TRUE
                postData == Get(index.posts, shortcode)
                startIndex == (page - 1) * limit
                endIndex == startIndex + limit
                needed == NeededChunks(postData.chunks, 0, startIndex, endIndex)
                uncached == {needed[i].index : i \in
                               {j \in DOMAIN needed : needed[j].file \notin DOMAIN db_cache}}
            IN  \E failed \in SUBSET uncached :
                   LET st == LoadChunks([cache |-> db_cache, comments |-> <<>>,
                                         attempted |-> {}, fetched |-> {}],
                                        needed, chunk_files, failed)
                   IN  /\ request' = [shortcode |-> shortcode, page |-> page,
                                      limit |-> limit, failed |-> failed,
                                      attempted |-> st.attempted,
                                      fetched |-> st.fetched]
                       /\ db_cache' = st.cache
                       /\ result' =
                             [comments |-> Slice(st.comments, startIndex % limit,
                                                 (startIndex % limit) + limit),
                              total |-> postData.total_comments,
                              hasMore |-> HasMore(endIndex, postData.total_comments)]
    /\ UNCHANGED <<script, pc, orgVars, anVars, preVars, db_index, ghostVars,
                   matchVars, toolVars>>

(***************************************************************************)
(* preindex_comments.main (SpecPreindex)                                   *)
(***************************************************************************)
InitPreindex ==
    /\ script = "preindex"
    /\ pc = "load"
    /\ event = "init"
    /\ chunk_size = MaxChunk
    /\ chunk_files = EmptyFn
    /\ OrganizeIdle
    /\ AnalyzeIdle
    /\ LoaderIdle
    /\ PreindexIdle
    /\ MatchIdle
    /\ ToolsIdle
    /\ GhostInit

\* load_data: data/comments.json
LoadData ==
    /\ script = "preindex" /\ pc = "load"
    /\ comments_json' \in EngagementInputs
    /\ pc' = "video_index"
    /\ event' = "loaded"
    /\ UNCHANGED <<script, orgVars, anVars, dbVars, video_comments_index, search_index,
                   word_freq_index, top_liked, ghostVars, matchVars, toolVars>>

MainVideoCommentIndex ==
    /\ script = "preindex" /\ pc = "video_index"
    /\ video_comments_index' = create_video_comment_index(comments_json)
    /\ pc' = "search_index"
    /\ event' = "video_index"
    /\ UNCHANGED <<script, orgVars, anVars, dbVars, comments_json, search_index,
                   word_freq_index, top_liked, ghostVars, matchVars, toolVars>>

MainSearchIndex ==
    /\ script = "preindex" /\ pc = "search_index"
    /\ search_index' = create_search_index(comments_json)
    /\ pc' = "word_freq"
    /\ event' = "search_index"
    /\ UNCHANGED <<script, orgVars, anVars, dbVars, comments_json, video_comments_index,
                   word_freq_index, top_liked, ghostVars, matchVars, toolVars>>

MainWordFrequencyIndex ==
    /\ script = "preindex" /\ pc = "word_freq"
    /\ word_freq_index' = create_word_frequency_index(comments_json)
    /\ top_liked' = TopLikedOf(comments_json)
    /\ pc' = "save"
    /\ event' = "word_freq"
    /\ UNCHANGED <<script, orgVars, anVars, dbVars, comments_json, video_comments_index,
                   search_index, ghostVars, matchVars, toolVars>>

\* the three json.dump calls and the size report
MainSave ==
    /\ script = "preindex" /\ pc = "save"
    /\ pc' = "done"
    /\ event' = "saved"
    /\ UNCHANGED <<script, orgVars, anVars, dbVars, preVars, ghostVars,
                   matchVars, toolVars>>

(***************************************************************************)
(* Specifications.                                                         *)
(***************************************************************************)
(***************************************************************************)
(* build_video_mapping.py (SpecMatch)                                      *)
(*                                                                         *)
(* A string is the sequence of its characters.  A file name                *)
(* YYYYMMDD_shortcode_Title.mp4 is the record of its three parts, which    *)
(* the pattern of extract_info_from_filename splits in one way only (the   *)
(* shortcode holds no underscore).                                         *)
(***************************************************************************)
\* str.replace(old, new) for one character; new is a string
RECURSIVE ReplaceChar(_, _, _)
ReplaceChar(s, old, new) ==
    IF s = <<>> THEN <<>>
    ELSE (IF Head(s) = old THEN new ELSE <<Head(s)>>) \o ReplaceChar(Tail(s), old, new)

\* str.strip()
RECURSIVE Strip(_)
Strip(s) ==
    IF s = <<>> THEN <<>>
    ELSE IF Head(s) = " " THEN Strip(Tail(s))
    ELSE IF s[Len(s)] = " " THEN Strip(SubSeq(s, 1, Len(s) - 1))
    ELSE s

\* re.sub(r'\s+', '_', s)
RECURSIVE Underscored(_)
Underscored(s) ==
    IF s = <<>> THEN <<>>
    ELSE IF Head(s) # " " THEN <<Head(s)>> \o Underscored(Tail(s))
    ELSE IF Len(s) > 1 /\ s[2] = " " THEN Underscored(Tail(s))
    ELSE <<"_">> \o Underscored(Tail(s))

sanitize_title_for_filename(title) ==
    LET removed == ReplaceChar(title, "?", <<>>)
        spaced == ReplaceChar(removed, "&", <<" ">>)
        unquoted == ReplaceChar(spaced, "'", <<>>)
    IN  Underscored(Strip(unquoted))

\* str.lower()
LowerStr(s) == [i \in DOMAIN s |-> IF s[i] = "A" THEN "a" ELSE s[i]]

\* needle in hay
Contains(hay, needle) ==
    \E i \in 0..(Len(hay) - Len(needle)) : SubSeq(hay, i + 1, i + Len(needle)) = needle

\* set(s.split('_'))
RECURSIVE SplitWords(_)
SplitWords(s) ==
    IF "_" \notin Range(s) THEN {s}
    ELSE LET i == CHOOSE k \in DOMAIN s : s[k] = "_" /\ \A j \in 1..(k - 1) : s[j] # "_"
         IN  {SubSeq(s, 1, i - 1)} \cup SplitWords(SubSeq(s, i + 1, Len(s)))

\* the dates of the model, and a date_str that strptime rejects
Dates == {"20200101", "20200102"}
BadDate == "20201301"

FileName(date_str, shortcode, title) ==
    [date_str |-> date_str, shortcode |-> shortcode, title |-> title]

\* the names os.listdir can return
FileNames ==
    {FileName("20200101", "x", <<"a">>), FileName("20200101", "y", <<"a">>),
     FileName("20200101", "x", <<"a", "_", "b">>), FileName("20200102", "x", <<"a">>),
     FileName(BadDate, "x", <<"a">>)}

Video(video_id, title, published_at) ==
    [video_id |-> video_id, title |-> title, published_at |-> published_at]

\* the entries videos.json can hold
VideoEntries ==
    {Video("va", <<"a">>, "2020-01-01T08:00:00Z"),
     Video("vb", <<"a", " ", "&", " ", "b">>, "2020-01-01T20:00:00Z"),
     Video("vc", <<"A", "?">>, "2020-01-02T08:00:00Z"),
     Video("vd", <<"a">>, "")}

\* datetime.fromisoformat(published_at.replace('Z', '+00:00')): {} when it raises
PublishedDate(published_at) ==
    IF published_at \in {"2020-01-01T08:00:00Z", "2020-01-01T20:00:00Z"} THEN {"20200101"}
    ELSE IF published_at = "2020-01-02T08:00:00Z" THEN {"20200102"}
    ELSE {}

\* extract_info_from_filename: {} for None
extract_info_from_filename(filename) ==
    IF filename.date_str \notin Dates THEN {}
    ELSE {[date_str |-> filename.date_str,
           shortcode |-> filename.shortcode,
           title |-> ReplaceChar(filename.title, "_", <<" ">>),
           filename |-> filename]}

RECURSIVE find_video_files(_)
find_video_files(listing) ==
    IF listing = <<>> THEN <<>>
    ELSE LET file_info == extract_info_from_filename(Head(listing))
             rest == find_video_files(Tail(listing))
         IN  IF file_info = {} THEN rest
             ELSE <<CHOOSE x \in file_info : TRUE>> \o rest

\* the score of one file for one video
Score(published_date_str, video_title, file_info) ==
    LET video_title_clean == LowerStr(sanitize_title_for_filename(video_title))
        file_title_clean == LowerStr(file_info.title)
        date == IF file_info.date_str = published_date_str THEN 100 ELSE 0
        title ==
           IF video_title_clean = file_title_clean THEN 50
           ELSE IF Contains(file_title_clean, video_title_clean) THEN 30
           ELSE IF Contains(video_title_clean, file_title_clean) THEN 25
           ELSE 2 * Cardinality(SplitWords(video_title_clean)
                                   \cap SplitWords(file_title_clean))
    IN  date + title

\* if score > best_score
Better_or_equal(score, best_score) == score >= best_score
Better(score, best_score) == score > best_score

\* `for file_info in video_files`: best_match ({} for None) and best_score
RECURSIVE BestMatch(_, _, _, _, _)
BestMatch(files, matched, published_date_str, video_title, best) ==
    IF files = <<>> THEN best
    ELSE LET file_info == Head(files)
             score == Score(published_date_str, video_title, file_info)
             next == IF file_info.filename \in matched THEN best
                     ELSE IF Better(score, best.best_score)
                     THEN [best_match |-> {file_info}, best_score |-> score]
                     ELSE best
         IN  BestMatch(Tail(files), matched, published_date_str, video_title, next)

\* if best_match and best_score >= 100
Accepted_on_title(best) == best.best_match # {} /\ best.best_score >= 50
Accepted(best) == best.best_match # {} /\ best.best_score >= 100

\* mappings[video_id] = {...}; suggested_filename and file_path are the title
\* and the file name again
MappingEntry(video, published_date_str, best) ==
    LET best_match == CHOOSE x \in best.best_match : TRUE
    IN  [title |-> video.title,
         actual_filename |-> best_match.filename,
         match_score |-> best.best_score,
         upload_date |-> published_date_str,
         file_date |-> best_match.date_str]

FileLists ==
    {s \in UNION {[1..n -> FileNames] : n \in 0..MaxFiles} :
       \A i, j \in DOMAIN s : i # j => s[i] # s[j]}
VideoLists == UNION {[1..n -> VideoEntries] : n \in 0..MaxVideos}

InitMatch ==
    /\ script = "build_video_mapping"
    /\ pc = "find_files"
    /\ event = "init"
    /\ chunk_size = MaxChunk
    /\ chunk_files = EmptyFn
    /\ OrganizeIdle
    /\ AnalyzeIdle
    /\ LoaderIdle
    /\ PreindexIdle
    /\ GhostInit
    /\ ToolsIdle
    /\ dir_listing \in FileLists
    /\ videos \in VideoLists
    /\ video_files = <<>>
    /\ video_pos = 1
    /\ mappings = <<>>
    /\ matched_files = {}
    /\ mapping_json = {}

\* main, step 1: find_video_files
FindVideoFiles ==
    /\ script = "build_video_mapping" /\ pc = "find_files"
    /\ video_files' = find_video_files(dir_listing)
    /\ IF video_files' = <<>>
       THEN pc' = "done" /\ event' = "no_files"
       ELSE pc' = "load_videos" /\ event' = "found_files"
    /\ UNCHANGED <<script, orgVars, anVars, dbVars, preVars, ghostVars, dir_listing, videos,
                   video_pos, mappings, matched_files, mapping_json, toolVars>>

\* main, step 2: load_video_data
LoadVideoData ==
    /\ script = "build_video_mapping" /\ pc = "load_videos"
    /\ IF videos = <<>>
       THEN pc' = "done" /\ event' = "no_videos"
       ELSE pc' = "match" /\ event' = "loaded_videos"
    /\ UNCHANGED <<script, orgVars, anVars, dbVars, preVars, ghostVars, matchVars, toolVars>>

\* match_videos_to_files, one iteration of `for video in videos`
MatchVideo ==
    /\ script = "build_video_mapping" /\ pc = "match"
    /\ video_pos <= Len(videos)
    /\ LET video == videos[video_pos]
           published == PublishedDate(video.published_at)
       IN  IF published = {}
           THEN /\ event' = "no_date"
                /\ UNCHANGED <<mappings, matched_files>>
           ELSE LET published_date_str == CHOOSE d \in published : TRUE
                    best == BestMatch(video_files, matched_files, published_date_str,
                                      video.title, [best_match |-> {}, best_score |-> 0])
                IN  IF Accepted(best)
                    THEN /\ mappings' = Put(mappings, video.video_id,
                                            MappingEntry(video, published_date_str, best))
                         /\ matched_files' =
                               matched_files
                                  \cup {x.filename : x \in best.best_match}
                         /\ event' = "matched"
                    ELSE /\ event' = "no_match"
                         /\ UNCHANGED <<mappings, matched_files>>
    /\ video_pos' = video_pos + 1
    /\ UNCHANGED <<script, pc, orgVars, anVars, dbVars, preVars, ghostVars, dir_listing,
                   videos, video_files, mapping_json, toolVars>>

\* match_videos_to_files returns; main, step 4: save_video_mapping
SaveVideoMapping ==
    /\ script = "build_video_mapping" /\ pc = "match"
    /\ video_pos > Len(videos)
    /\ IF mappings # <<>>
       THEN mapping_json' = {mappings} /\ event' = "saved"
       ELSE mapping_json' = {} /\ event' = "no_mappings"
    /\ pc' = "done"
    /\ UNCHANGED <<script, orgVars, anVars, dbVars, preVars, ghostVars, dir_listing, videos,
                   video_files, video_pos, mappings, matched_files, toolVars>>

(***************************************************************************)
(* The main() functions that read required input files (SpecTools):        *)
(* analyze_comments.main, parse_comments_to_db.main with CommentParser,    *)
(* and import_to_render.main with RenderImporter.                          *)
(*                                                                         *)
(* inputs is the set of input files and settings that exist.  The stage    *)
(* names a main() has completed are appended to stages.  A CSV data row is *)
(* its position in the file; db_log lists the statements sent to the       *)
(* database, in order.  batch_size is small in the model (5000 in the      *)
(* source), so the periodic commit of import_comments, every 50000 rows,   *)
(* is never due.  A storedIds list may end in an element that cannot be    *)
(* hashed (a list): the log then has the field `unhashable`.               *)
(***************************************************************************)
\* os.path.exists(path), os.environ.get(name), and whether open(path) succeeds
Exists_always(path) == TRUE
Exists(path) == path \in inputs

UnhashableIdLog(ids) ==
    [isDict |-> TRUE, idsIsList |-> TRUE, storedIds |-> ids, unhashable |-> TRUE]

\* the entries of the files CommentParser reads
DbEntries ==
    {NonDictEntry, DictEntry("", LogsList(<<GoodLog(<<1>>)>>)),
     DictEntry("#[7]", LogsList(<<GoodLog(<<1>>)>>)),
     DictEntry("P", LogsNull),
     DictEntry("P", LogsList(<<NonDictLog, BadIdsLog, UnhashableIdLog(<<MaxParsed>>)>>))}
    \cup {DictEntry(p, LogsList(<<GoodLog(s)>>)) :
            p \in Posts, s \in {<<a>> : a \in ParseIds} \cup {<<MaxParsed, 1>>}}

\* the files: json.load raises, the top level is a list, or it is a dict
DbFiles ==
    {[kind |-> k, entries |-> <<>>] : k \in {"bad", "list", "dict"}}
    \cup {[kind |-> "dict", entries |-> <<a>>] : a \in DbEntries}
    \cup {[kind |-> "dict", entries |-> <<a, b>>] : a \in DbEntries, b \in DbEntries}

\* if comment_id not in self.seen_comment_ids
IsNew_for_the_post(parser, comment_id, shortcode) ==
    [comment_id |-> comment_id, post_shortcode |-> shortcode]
       \notin Range(parser.comments_data)
IsNew(parser, comment_id, shortcode) == comment_id \notin parser.seen_comment_ids

\* `for comment_id in comment_ids`
RECURSIVE AddComments(_, _, _)
AddComments(parser, shortcode, comment_ids) ==
    IF comment_ids = <<>> THEN parser
    ELSE LET comment_id == Head(comment_ids)
             next == IF IsNew(parser, comment_id, shortcode)
                     THEN [seen_comment_ids |-> parser.seen_comment_ids \cup {comment_id},
                           comments_data |->
                              Append(parser.comments_data,
                                     [comment_id |-> comment_id,
                                      post_shortcode |-> shortcode])]
                     ELSE parser
         IN  AddComments(next, shortcode, Tail(comment_ids))

\* `for log in entry.get('logs', [])`: the parser after the logs, and whether
\* an element that cannot be hashed raised TypeError
RECURSIVE ParseDbLogs(_, _, _)
ParseDbLogs(parser, shortcode, items) ==
    IF items = <<>> THEN [parser |-> parser, raised |-> FALSE]
    ELSE LET log == Head(items)
         IN  IF ~log.isDict \/ ~log.idsIsList
             THEN ParseDbLogs(parser, shortcode, Tail(items))
             ELSE LET next == AddComments(parser, shortcode, log.storedIds)
                  IN  IF "unhashable" \in DOMAIN log
                      THEN [parser |-> next, raised |-> TRUE]
                      ELSE ParseDbLogs(next, shortcode, Tail(items))

\* `for uuid, entry in data.items()`, until an exception leaves the loop
RECURSIVE ParseDbEntries(_, _)
ParseDbEntries(parser, entries) ==
    IF entries = <<>> THEN parser
    ELSE LET e == Head(entries)
         IN  IF ~e.isDict \/ ~Truthy(e.target) THEN ParseDbEntries(parser, Tail(entries))
             ELSE IF e.logs.kind = "null" THEN parser
             ELSE IF e.logs.kind = "str" THEN ParseDbEntries(parser, Tail(entries))
             ELSE LET r == ParseDbLogs(parser, e.target, e.logs.items)
                  IN  IF r.raised THEN r.parser
                      ELSE ParseDbEntries(r.parser, Tail(entries))

\* _parse_single_json
parse_single_json(parser, file) ==
    IF file.kind # "dict" THEN parser ELSE ParseDbEntries(parser, file.entries)

NoFile == [kind |-> "none", entries |-> <<>>]

\* if len(batch) >= self.batch_size
FlushDue_when_over(rows, size) == Len(rows) > size
FlushDue(rows, size) == Len(rows) >= size

CommitInterval == 50000   \* if imported % 50000 == 0: conn.commit()

Table == IF pc \in {"import_posts", "posts_loop"} THEN "posts" ELSE "comments"
Insert(table, rows) == [op |-> "insert", table |-> table, rows |-> rows]
Commit == [op |-> "commit", table |-> "", rows |-> <<>>]
CreateTables == [op |-> "schema", table |-> "", rows |-> <<>>]

ToolInputs ==
    [analyze_comments |-> {"metadata_csv"},
     parse_comments_to_db |-> {"metadata_csv"},
     import_to_render |-> {"DATABASE_URL", "posts_csv", "comments_csv", "schema_sql"}]

InitTools ==
    /\ script \in DOMAIN ToolInputs
    /\ pc = "main"
    /\ event = "init"
    /\ chunk_size = MaxChunk
    /\ chunk_files = EmptyFn
    /\ OrganizeIdle
    /\ AnalyzeIdle
    /\ LoaderIdle
    /\ PreindexIdle
    /\ MatchIdle
    /\ GhostInit
    /\ inputs \in SUBSET ToolInputs[script]
    /\ batch_size \in (IF script = "import_to_render" THEN 1..MaxBatch ELSE {MaxBatch})
    /\ outputs = {}
    /\ stages = <<>>
    /\ db_log = <<>>
    /\ db_file = NoFile
    /\ comments_data = <<>>
    /\ seen_comment_ids = {}
    /\ csv_rows = 0
    /\ row_pos = 1
    /\ batch = <<>>
    /\ imported = 0

\* analyze_comments.main up to the metadata CSV: the JSON files are analysed
\* (SpecParse), then open(metadata_path) succeeds or raises
AnalyzeMainMetadata ==
    /\ script = "analyze_comments" /\ pc = "main"
    /\ IF Exists("metadata_csv")
       THEN /\ stages' = <<"analyze_files", "metadata">>
            /\ pc' = "save"
            /\ event' = "metadata_read"
       ELSE /\ stages' = <<"analyze_files">>
            /\ pc' = "crashed"
            /\ event' = "missing_input"
    /\ UNCHANGED <<script, orgVars, anVars, dbVars, preVars, ghostVars, matchVars, inputs,
                   outputs, db_log, db_file, comments_data, seen_comment_ids, csv_rows,
                   row_pos, batch, imported, batch_size>>

\* analyze_comments.main: missing_comment_posts.txt when posts are missing, and
\* comment_statistics.json
AnalyzeMainSave ==
    /\ script = "analyze_comments" /\ pc = "save"
    /\ \E missing_posts \in BOOLEAN :
          outputs' = {"comment_statistics.json"}
                        \cup (IF missing_posts THEN {"missing_comment_posts.txt"} ELSE {})
    /\ stages' = Append(stages, "save")
    /\ pc' = "done"
    /\ event' = "success"
    /\ UNCHANGED <<script, orgVars, anVars, dbVars, preVars, ghostVars, matchVars, inputs,
                   db_log, db_file, comments_data, seen_comment_ids, csv_rows, row_pos,
                   batch, imported, batch_size>>

\* parse_comments_to_db.main: comment_parser.parse_metadata_csv()
ParseMetadataCsv ==
    /\ script = "parse_comments_to_db" /\ pc = "main"
    /\ IF Exists("metadata_csv")
       THEN /\ stages' = <<"parse_metadata_csv">>
            /\ pc' = "parse_files"
            /\ event' = "metadata_read"
       ELSE /\ stages' = <<>>
            /\ pc' = "crashed"
            /\ event' = "missing_input"
    /\ UNCHANGED <<script, orgVars, anVars, dbVars, preVars, ghostVars, matchVars, inputs,
                   outputs, db_log, db_file, comments_data, seen_comment_ids, csv_rows,
                   row_pos, batch, imported, batch_size>>

\* parse_comment_files, one iteration of `for json_file in json_files`
ParseSingleJson(file) ==
    /\ script = "parse_comments_to_db" /\ pc = "parse_files"
    /\ LET parser == parse_single_json([comments_data |-> comments_data,
                                        seen_comment_ids |-> seen_comment_ids], file)
       IN  /\ comments_data' = parser.comments_data
           /\ seen_comment_ids' = parser.seen_comment_ids
    /\ db_file' = file
    /\ event' = "parsed_file"
    /\ UNCHANGED <<script, pc, orgVars, anVars, dbVars, preVars, ghostVars, matchVars,
                   inputs, outputs, stages, db_log, csv_rows, row_pos, batch, imported,
                   batch_size>>

\* parse_comment_files returns; main saves to CSV files (--csv), or stops for
\* want of a database password, or inserts into PostgreSQL
SaveOrInsert ==
    /\ script = "parse_comments_to_db" /\ pc = "parse_files"
    /\ \E mode \in {"csv", "no_password", "db"} :
          /\ outputs' = IF mode = "csv" THEN {"posts.csv", "comments.csv"} ELSE {}
          /\ db_log' = IF mode = "db"
                       THEN <<Insert("posts", <<>>),
                              Insert("comments", comments_data), Commit>>
                       ELSE <<>>
          /\ stages' = stages \o (IF mode = "no_password" THEN <<"parse_comment_files">>
                                  ELSE <<"parse_comment_files", "save">>)
          /\ pc' = IF mode = "no_password" THEN "exited" ELSE "done"
          /\ event' = IF mode = "no_password" THEN "no_password" ELSE "success"
    /\ UNCHANGED <<script, orgVars, anVars, dbVars, preVars, ghostVars, matchVars, inputs,
                   db_file, comments_data, seen_comment_ids, csv_rows, row_pos, batch,
                   imported, batch_size>>

\* import_to_render.main: DATABASE_URL and ./data/parsed/posts.csv
ImportMain ==
    /\ script = "import_to_render" /\ pc = "main"
    /\ IF Exists("DATABASE_URL") /\ Exists("posts_csv")
       THEN pc' = "create_schema" /\ event' = "inputs_found"
       ELSE pc' = "exited" /\ event' = "missing_input"
    /\ UNCHANGED <<script, orgVars, anVars, dbVars, preVars, ghostVars, matchVars, toolVars>>

\* create_schema; an exception is caught in main, which exits
CreateSchema ==
    /\ script = "import_to_render" /\ pc = "create_schema"
    /\ IF Exists("schema_sql")
       THEN /\ db_log' = db_log \o <<CreateTables, Commit>>
            /\ stages' = Append(stages, "create_schema")
            /\ pc' = "import_posts"
            /\ event' = "schema"
       ELSE /\ pc' = "exited"
            /\ event' = "missing_input"
            /\ UNCHANGED <<db_log, stages>>
    /\ UNCHANGED <<script, orgVars, anVars, dbVars, preVars, ghostVars, matchVars, inputs,
                   outputs, db_file, comments_data, seen_comment_ids, csv_rows, row_pos,
                   batch, imported, batch_size>>

\* import_posts and import_comments up to the loop: connect, count the lines,
\* open the CSV file with its data rows 1..csv_rows
ImportOpen ==
    /\ script = "import_to_render" /\ pc \in {"import_posts", "import_comments"}
    /\ IF Exists(IF Table = "posts" THEN "posts_csv" ELSE "comments_csv")
       THEN /\ csv_rows' \in 0..MaxCsvRows
            /\ pc' = IF Table = "posts" THEN "posts_loop" ELSE "comments_loop"
            /\ event' = "opened"
       ELSE /\ csv_rows' = 0
            /\ pc' = "exited"
            /\ event' = "missing_input"
    /\ row_pos' = 1
    /\ batch' = <<>>
    /\ imported' = 0
    /\ UNCHANGED <<script, orgVars, anVars, dbVars, preVars, ghostVars, matchVars, inputs,
                   outputs, stages, db_log, db_file, comments_data, seen_comment_ids,
                   batch_size>>

\* one iteration of `for row in reader`
ImportRow ==
    /\ script = "import_to_render" /\ pc \in {"posts_loop", "comments_loop"}
    /\ row_pos <= csv_rows
    /\ LET appended == Append(batch, row_pos)
       IN  IF FlushDue(appended, batch_size)
           THEN /\ imported' = imported + Len(appended)
                /\ db_log' = db_log \o <<Insert(Table, appended)>>
                                \o (IF Table = "comments" /\ imported' % CommitInterval = 0
                                    THEN <<Commit>> ELSE <<>>)
                /\ batch' = <<>>
                /\ event' = "batch"
           ELSE /\ batch' = appended
                /\ event' = "row"
                /\ UNCHANGED <<imported, db_log>>
    /\ row_pos' = row_pos + 1
    /\ UNCHANGED <<script, pc, orgVars, anVars, dbVars, preVars, ghostVars, matchVars,
                   inputs, outputs, stages, db_file, comments_data, seen_comment_ids,
                   csv_rows, batch_size>>

\* execute_batch raises while rows are pending: the exception is caught in
\* main, which exits; nothing commits what was inserted since the last commit
InsertFails ==
    /\ script = "import_to_render" /\ pc \in {"posts_loop", "comments_loop"}
    /\ IF row_pos <= csv_rows THEN FlushDue(Append(batch, row_pos), batch_size)
       ELSE batch # <<>>
    /\ pc' = "exited"
    /\ event' = "insert_failed"
    /\ UNCHANGED <<script, orgVars, anVars, dbVars, preVars, ghostVars, matchVars, toolVars>>

\* after the loop: insert the remaining rows, commit, close, return
ImportRemaining ==
    /\ script = "import_to_render" /\ pc \in {"posts_loop", "comments_loop"}
    /\ row_pos > csv_rows
    /\ imported' = imported + Len(batch)
    /\ db_log' = db_log \o (IF batch # <<>> THEN <<Insert(Table, batch)>> ELSE <<>>)
                        \o <<Commit>>
    /\ stages' = Append(stages, IF Table = "posts" THEN "import_posts"
                                ELSE "import_comments")
    /\ pc' = IF Table = "posts" THEN "import_comments" ELSE "verify"
    /\ event' = "imported"
    /\ UNCHANGED <<script, orgVars, anVars, dbVars, preVars, ghostVars, matchVars, inputs,
                   outputs, db_file, comments_data, seen_comment_ids, csv_rows, row_pos,
                   batch, batch_size>>

\* verify_import, then "Import completed successfully!"
VerifyImport ==
    /\ script = "import_to_render" /\ pc = "verify"
    /\ stages' = Append(stages, "verify")
    /\ pc' = "done"
    /\ event' = "success"
    /\ UNCHANGED <<script, orgVars, anVars, dbVars, preVars, ghostVars, matchVars, inputs,
                   outputs, db_log, db_file, comments_data, seen_comment_ids, csv_rows,
                   row_pos, batch, imported, batch_size>>

Next ==
    \/ CleanOutputDirectory
    \/ ParseJsonFiles
    \/ DeduplicateComments
    \/ ChunkPost
    \/ ChunkPostFails
    \/ ChunkReturn
    \/ CreateIndexFiles
    \/ CreateLoaderScript

Spec == Init /\ [][Next]_vars

NextParse ==
    \/ ParseBadFile
    \/ ParseOpenFile
    \/ ParseOpenListFile
    \/ \E e \in Entries : ParseEntry(e)
    \/ \E e \in Entries : UnreadEntry(e)
    \/ ParseCloseFile
    \/ ParseReturn
    \/ DeduplicateComments
    \/ AnalyzeBadFile
    \/ AnalyzeOpenFile
    \/ \E e \in Entries : AnalyzeStep(e)
    \/ AnalyzeReturn
    \/ AnalyzeReport

SpecParse == InitParse /\ [][NextParse]_vars

NextLoader ==
    \/ Initialize
    \/ \E shortcode \in Posts, page \in 1..MaxPage, limit \in 1..MaxLimit :
          GetCommentsForPost(shortcode, page, limit)

SpecLoader == InitLoader /\ [][NextLoader]_vars

NextPreindex ==
    \/ LoadData
    \/ MainVideoCommentIndex
    \/ MainSearchIndex
    \/ MainWordFrequencyIndex
    \/ MainSave

SpecPreindex == InitPreindex /\ [][NextPreindex]_vars

NextMatch ==
    \/ FindVideoFiles
    \/ LoadVideoData
    \/ MatchVideo
    \/ SaveVideoMapping

SpecMatch == InitMatch /\ [][NextMatch]_vars

NextTools ==
    \/ AnalyzeMainMetadata
    \/ AnalyzeMainSave
    \/ ParseMetadataCsv
    \/ \E file \in DbFiles : ParseSingleJson(file)
    \/ SaveOrInsert
    \/ ImportMain
    \/ CreateSchema
    \/ ImportOpen
    \/ ImportRow
    \/ InsertFails
    \/ ImportRemaining
    \/ VerifyImport

SpecTools == InitTools /\ [][NextTools]_vars


(***************************************************************************)
(* Properties of StaticCommentOrganizer.process (Spec).                    *)
(***************************************************************************)
Deduplicated == pc \in {"chunk", "index", "loader_script", "done", "crashed"}
Chunked == pc \in {"index", "loader_script", "done"}

CeilDiv(n, c) == (n + c - 1) \div c

FirstIndex(s, x) == CHOOSE i \in DOMAIN s : s[i] = x /\ \A j \in 1..(i - 1) : s[j] # x

\* out is inp with every occurrence of a value after its first removed
FirstOccurrences(inp, out) ==
    /\ \A i, j \in DOMAIN out : i # j => out[i] # out[j]
    /\ Range(out) = Range(inp)
    /\ \A i, j \in DOMAIN out :
          i < j => FirstIndex(inp, out[i]) < FirstIndex(inp, out[j])
    /\ Len(out) <= Len(inp)

\* C1: deduplicate_comments leaves, for every post, the list parse_json_files
\* returned with every occurrence of an identifier after its first removed: no
\* identifier twice, every identifier kept, in the order of first appearance,
\* no longer than the input; [a,b,a,c,b] gives [a,b,c].
C1_DedupFirstOccurrences ==
    /\ DedupList(<<1, 2, 1, 3, 2>>) = <<1, 2, 3>>
    /\ Deduplicated =>
          /\ Len(shortcode_comments) = Len(raw_comments)
          /\ \A i \in DOMAIN raw_comments :
                /\ shortcode_comments[i].k = raw_comments[i].k
                /\ FirstOccurrences(raw_comments[i].v, shortcode_comments[i].v)

\* a post whose list was [a, b, a] has been deduplicated to two identifiers
C1_Witness ==
    /\ pc = "chunk"
    /\ \E i \in DOMAIN raw_comments :
          /\ Len(raw_comments[i].v) = 3
          /\ raw_comments[i].v[1] = raw_comments[i].v[3]
          /\ raw_comments[i].v[1] # raw_comments[i].v[2]
          /\ Len(shortcode_comments[i].v) = 2

\* C19: deduplicate_comments applied to a mapping it has already deduplicated
\* returns it unchanged, with the same posts in the same order:
\* deduplicate(deduplicate(m)) = deduplicate(m) for the mapping m that
\* parse_json_files returned.
C19_DedupIdempotent ==
    Deduplicated =>
       /\ Deduplicate(shortcode_comments) = shortcode_comments
       /\ Deduplicate(Deduplicate(raw_comments)) = Deduplicate(raw_comments)
       /\ [i \in DOMAIN shortcode_comments |-> shortcode_comments[i].k]
             = [i \in DOMAIN raw_comments |-> raw_comments[i].k]

\* deduplicate_comments has run on a mapping of two posts and shortened the
\* list of one of them by two identifiers
C19_Witness ==
    /\ Deduplicated
    /\ Len(shortcode_comments) = 2
    /\ \E i \in DOMAIN shortcode_comments :
          Len(raw_comments[i].v) = Len(shortcode_comments[i].v) + 2

\* the chunk indices of the artifacts written for a post
ChunkIndices(shortcode) == {path[2] : path \in {q \in DOMAIN chunk_files : q[1] = shortcode}}

\* C2: every post with N >= 1 deduplicated comments that create_chunked_files
\* has dealt with (all of them once it has returned) has exactly
\* ceil(N / chunk_size) chunk artifacts, numbered from 0; every one but the
\* last holds chunk_size identifiers, the last between 1 and chunk_size; their
\* comment_ids concatenated in index order are the post's deduplicated list.
C2_ChunksPartition ==
    \A i \in DOMAIN shortcode_comments :
       LET shortcode == shortcode_comments[i].k
           comments == shortcode_comments[i].v
           n == CeilDiv(Len(comments), chunk_size)
           ids(j) == chunk_files[ChunkPath(shortcode, j)].comment_ids
       IN  (/\ Len(comments) >= 1
            /\ Deduplicated
            /\ Chunked \/ shortcode \in Keys(index_data.posts)) =>
              /\ ChunkIndices(shortcode) = 0..(n - 1)
              /\ \A j \in 0..(n - 2) : Len(ids(j)) = chunk_size
              /\ Len(ids(n - 1)) \in 1..chunk_size
              /\ \A j \in 0..(n - 1) :
                    /\ chunk_files[ChunkPath(shortcode, j)].chunk_index = j
                    /\ chunk_files[ChunkPath(shortcode, j)].shortcode = shortcode
              /\ Concat([j \in 1..n |-> ids(j - 1)]) = comments

\* a post of three identifiers was written as a full chunk and a shorter last one
C2_Witness ==
    /\ pc = "done"
    /\ chunk_size = 2
    /\ \E i \in DOMAIN shortcode_comments :
          /\ Len(shortcode_comments[i].v) = 3
          /\ ChunkIndices(shortcode_comments[i].k) = {0, 1}

\* C3: every post of index_data['posts'] lists descriptors with index
\* 0, 1, ..., k-1 in that order and chunk_count = k; each descriptor's count is
\* the count and the number of comment_ids of the artifact at its file path;
\* the counts sum to total_comments, the length of the post's deduplicated list.
C3_IndexMatchesChunks ==
    \A i \in DOMAIN index_data.posts :
       LET shortcode == index_data.posts[i].k
           d == index_data.posts[i].v
       IN  /\ \A j \in DOMAIN d.chunks : d.chunks[j].index = j - 1
           /\ d.chunk_count = Len(d.chunks)
           /\ \A j \in DOMAIN d.chunks :
                 /\ d.chunks[j].file \in DOMAIN chunk_files
                 /\ d.chunks[j].count = chunk_files[d.chunks[j].file].count
                 /\ d.chunks[j].count = Len(chunk_files[d.chunks[j].file].comment_ids)
           /\ SumSeq([j \in DOMAIN d.chunks |-> d.chunks[j].count]) = d.total_comments
           /\ shortcode \in Keys(shortcode_comments)
           /\ d.total_comments = Len(Get(shortcode_comments, shortcode))

\* the index lists a post with a full chunk followed by a shorter one
C3_Witness ==
    /\ pc = "done"
    /\ \E i \in DOMAIN index_data.posts :
          LET d == index_data.posts[i].v
          IN  /\ d.chunk_count = 2
              /\ d.chunks[1].count = 2
              /\ d.chunks[2].count = 1

\* C8 (as claimed): a failure while writing one post's chunks does not halt
\* create_chunked_files: when the run has ended, every other non-empty post
\* has its chunks and its descriptor, and index.json and summary.json exist.
C8_WriteFailureDoesNotHalt ==
    (pc \in {"done", "crashed"} /\ write_error # {}) =>
       /\ \A i \in DOMAIN shortcode_comments :
             LET shortcode == shortcode_comments[i].k
             IN  (shortcode_comments[i].v # <<>> /\ shortcode \notin write_error) =>
                    /\ shortcode \in Keys(index_data.posts)
                    /\ ChunkPath(shortcode, 0) \in DOMAIN chunk_files
       /\ index_json # {}
       /\ summary_json # {}

\* C11: a post whose deduplicated list is empty has no chunk artifact in the
\* output directory and no entry in index_data['posts'], index.json['posts'] or
\* summary.json['posts']; every post of the index (in memory and as written)
\* has total_comments >= 1 and at least one chunk descriptor.
C11_EmptyPostExcluded ==
    LET listed(posts) ==
           \A i \in DOMAIN posts :
              /\ posts[i].v.total_comments >= 1
              /\ posts[i].v.chunk_count >= 1
              /\ Len(posts[i].v.chunks) >= 1
    IN  /\ listed(index_data.posts)
        /\ \A idx \in index_json : listed(idx.posts)
        /\ \A sm \in summary_json :
              \A i \in DOMAIN sm.posts : sm.posts[i].comment_count >= 1
        /\ Deduplicated =>
              \A i \in DOMAIN shortcode_comments :
                 LET shortcode == shortcode_comments[i].k
                 IN  shortcode_comments[i].v = <<>> =>
                        /\ ChunkIndices(shortcode) = {}
                        /\ shortcode \notin Keys(index_data.posts)
                        /\ \A idx \in index_json : shortcode \notin Keys(idx.posts)
                        /\ \A sm \in summary_json :
                              \A j \in DOMAIN sm.posts : sm.posts[j].shortcode # shortcode

\* a run ended with one post indexed and another, without identifiers, left out
C11_Witness ==
    /\ pc = "done"
    /\ summary_json # {}
    /\ Len(index_data.posts) = 1
    /\ \E i \in DOMAIN shortcode_comments : shortcode_comments[i].v = <<>>

\* the place of a post in the iteration order of an index
PlaceIn(posts, shortcode) == CHOOSE i \in DOMAIN posts : posts[i].k = shortcode

\* C17: summary.json['posts'] lists every post of index.json['posts'] once and
\* nothing else, each with comment_count = the post's total_comments, in
\* descending comment_count, posts of equal count in the index's iteration
\* order; counts [5, 20, 5, 1] come out as [20, 5, 5, 1], the 5s in order.
C17_SummarySorted ==
    /\ SortDesc(<<[shortcode |-> "a", comment_count |-> 5],
                  [shortcode |-> "b", comment_count |-> 20],
                  [shortcode |-> "c", comment_count |-> 5],
                  [shortcode |-> "d", comment_count |-> 1]>>)
          = <<[shortcode |-> "b", comment_count |-> 20],
              [shortcode |-> "a", comment_count |-> 5],
              [shortcode |-> "c", comment_count |-> 5],
              [shortcode |-> "d", comment_count |-> 1]>>
    /\ \A sm \in summary_json :
          /\ index_json # {}
          /\ \A idx \in index_json :
                /\ Len(sm.posts) = Len(idx.posts)
                /\ {sm.posts[i].shortcode : i \in DOMAIN sm.posts} = Keys(idx.posts)
                /\ \A i \in DOMAIN sm.posts :
                      sm.posts[i].comment_count
                         = Get(idx.posts, sm.posts[i].shortcode).total_comments
                /\ \A a, b \in DOMAIN sm.posts :
                      a < b =>
                         /\ sm.posts[a].comment_count >= sm.posts[b].comment_count
                         /\ sm.posts[a].comment_count = sm.posts[b].comment_count =>
                               PlaceIn(idx.posts, sm.posts[a].shortcode)
                                  < PlaceIn(idx.posts, sm.posts[b].shortcode)

\* summary.json lists two posts with the same count, in the index's order
C17_Witness ==
    /\ pc = "done"
    /\ \E sm \in summary_json, idx \in index_json :
          /\ Len(sm.posts) = 2
          /\ sm.posts[1].comment_count = sm.posts[2].comment_count
          /\ sm.posts[1].shortcode = idx.posts[1].k

\* C20: the stats written to index.json agree with its posts: total_posts is
\* their number, total_comments the sum of their total_comments, total_chunks
\* the sum of their chunk_count and the number of chunk files in the output
\* directory; summary.json carries the same stats.
C20_StatsConsistent ==
    /\ \A idx \in index_json :
          /\ idx.stats.total_posts = Len(idx.posts)
          /\ idx.stats.total_comments =
                SumSeq([i \in DOMAIN idx.posts |-> idx.posts[i].v.total_comments])
          /\ idx.stats.total_chunks =
                SumSeq([i \in DOMAIN idx.posts |-> idx.posts[i].v.chunk_count])
          /\ idx.stats.total_chunks = Cardinality(DOMAIN chunk_files)
          /\ \A sm \in summary_json : sm.stats = idx.stats
    /\ summary_json # {} => index_json # {}

\* index.json and summary.json were written for two posts in three chunks
C20_Witness ==
    /\ pc = "done"
    /\ summary_json # {}
    /\ \E idx \in index_json :
          /\ idx.stats.total_posts = 2
          /\ idx.stats.total_chunks = 3
          /\ idx.stats.total_comments = 3

\* the step-wise run writes what WrittenChunks and WrittenIndex compute
RunMatchesWritten ==
    pc = "done" =>
       /\ chunk_files = WrittenChunks(shortcode_comments, chunk_size)
       /\ index_json = {WrittenIndex(shortcode_comments, chunk_size)}


(***************************************************************************)
(* Properties of the parsers (SpecParse).                                  *)
(***************************************************************************)
\* the identifiers aggregated for post p by the parser that runs
Aggregated(p) ==
    IF script = "organize" THEN Range(GetOr(shortcode_comments, p, <<>>))
    ELSE IF p \in DOMAIN shortcode_to_comments THEN shortcode_to_comments[p]
    ELSE {}

\* C4 (as claimed): after parse_json_files and deduplicate_comments, every
\* post's list holds, once each, exactly the identifiers that the entries of
\* all the files that were read reference for it.
C4_UnionOverFiles ==
    (script = "organize" /\ pc = "chunk") =>
       \A p \in Posts :
          /\ Aggregated(p) = referenced[p]
          /\ Len(GetOr(shortcode_comments, p, <<>>)) = Cardinality(referenced[p])

\* C5 (as claimed): between files and at the end of analyze_comments.main, the
\* count kept for a post is the number of distinct identifiers that the files
\* read so far reference for it.
C5_CountIsUnionSize ==
    (script = "analyze" /\ pc \in {"a_main", "a_done"}) =>
       \A p \in Posts \cap DOMAIN shortcode_comment_counts :
          shortcode_comment_counts[p] = Cardinality(referenced[p])

\* C6 (as claimed): analyze_json_file counts every malformed entry (not a
\* mapping, logs not a sequence, storedIds not a sequence) in error_entries;
\* a file of one well-formed entry and one entry whose logs is a string has
\* one counted error.
C6_MalformedCounted ==
    (script = "analyze" /\ pc = "a_file") => error_entries = n_malformed

\* C7 (as claimed): in either parser the identifiers of every well-formed
\* entry that follows a malformed entry of the same file are aggregated.
C7_MalformedDoesNotAbort ==
    \A p \in Posts : after_malformed[p] \subseteq Aggregated(p)

\* the part of C7 that concerns analyze_json_file alone
C7_AnalyzeOnly == script = "analyze" => C7_MalformedDoesNotAbort

\* C15 (as claimed): in both parsers every key of the aggregated mapping is a
\* non-empty string: an entry whose target is absent, empty or no string adds
\* no key.
C15_KeysAreStrings ==
    /\ script = "organize" => Keys(shortcode_comments) \subseteq Posts
    /\ script = "analyze" =>
          /\ DOMAIN shortcode_to_comments \subseteq Posts
          /\ all_shortcodes_with_comments \subseteq Posts

\* the part of C15 that concerns targets that are absent, empty, 0 or a list
C15_FalsyOrList ==
    \A t \in {"", "#0", "#[7]"} :
       /\ script = "organize" => t \notin Keys(shortcode_comments)
       /\ script = "analyze" => t \notin DOMAIN shortcode_to_comments

\* C16 (as claimed): a file whose top level is a list contributes what the
\* mapping file of the same entries contributes: the identifiers that its
\* entries reference for a post are aggregated, in either parser.
C16_ListFileAggregated ==
    \A p \in Posts : from_list[p] \subseteq Aggregated(p)

\* the part of C16 that concerns analyze_json_file alone
C16_AnalyzeOnly == script = "analyze" => C16_ListFileAggregated

\* C9: a file that is not valid JSON is skipped without ending the run: the
\* step that meets it leaves the aggregated mapping (parse_json_files) and the
\* aggregated counts and shortcodes (analyze_comments.main) as they were, and
\* leaves the parser at the head of its loop over the files, where the next
\* file can be opened.
C9_BadFileSkipped ==
    [][event' = "bad_json" =>
          /\ shortcode_comments' = shortcode_comments
          /\ shortcode_comment_counts' = shortcode_comment_counts
          /\ all_shortcodes_with_comments' = all_shortcodes_with_comments
          /\ pc' = pc
          /\ pc' \in {"parse", "a_main"}]_vars

\* an invalid file was met after identifiers had been aggregated from a good one
C9_Witness ==
    /\ event = "bad_json"
    /\ \/ script = "organize" /\ TotalLen(shortcode_comments) > 0
       \/ script = "analyze" /\ \E p \in DOMAIN shortcode_comment_counts :
                                   shortcode_comment_counts[p] > 0

(***************************************************************************)
(* Properties of preindex_comments.py (SpecPreindex).                      *)
(***************************************************************************)
WordFreqDone == script = "preindex" /\ pc \in {"save", "done"}

\* the positions in comments.json of the video's records with like_count > 0
LikedOf(video_id) ==
    {j \in DOMAIN comments_json :
       comments_json[j].video_id = video_id /\ comments_json[j].like_count > 0}

\* the records of the liked subset `subset` that contain the word
Containing(subset, word) ==
    {j \in DOMAIN subset : word \in Range(FindWords(subset[j].text))}

\* C12 (as claimed): the liked subset of a video with L liked comments holds
\* ceil(0.2 * L) of them (at least 1 when L >= 1, none when L = 0), and no
\* liked comment left out has more likes than one taken.
C12_LikedSubsetSize ==
    WordFreqDone =>
       \A i \in DOMAIN top_liked :
          LET subset == top_liked[i].v
              liked == LikedOf(top_liked[i].k)
              L == Cardinality(liked)
              taken == {subset[j].comment_id : j \in DOMAIN subset}
          IN  /\ Len(subset) = IF L = 0 THEN 0 ELSE Max(1, CeilDiv(L, 5))
              /\ Cardinality(taken) = Len(subset)
              /\ taken \subseteq liked
              /\ \A a \in taken, b \in liked \ taken :
                    comments_json[a].like_count >= comments_json[b].like_count

\* C13 (as claimed): every word of a video's liked_words appears in at least
\* two distinct comments of the video's liked subset.
C13_LikedWordThreshold ==
    WordFreqDone =>
       \A i \in DOMAIN word_freq_index :
          LET ranked == word_freq_index[i].v.liked_words
              subset == Get(top_liked, word_freq_index[i].k)
          IN  \A r \in DOMAIN ranked :
                 Cardinality(Containing(subset, ranked[r].word)) >= 2

\* C14 (as claimed): for a word of liked_words that at least two comments of
\* the liked subset contain, 'count' is the number of those comments and
\* avgLikes is the average of their like counts, rounded to an integer.
C14_LikedWordAverage ==
    WordFreqDone =>
       \A i \in DOMAIN word_freq_index :
          LET ranked == word_freq_index[i].v.liked_words
              subset == Get(top_liked, word_freq_index[i].k)
          IN  \A r \in DOMAIN ranked :
                 LET with == Containing(subset, ranked[r].word)
                     n == Cardinality(with)
                     total == SumSeq([j \in DOMAIN subset |->
                                        IF j \in with THEN subset[j].like_count ELSE 0])
                     diff == ranked[r].avgLikes * n - total
                 IN  n >= 2 =>
                        /\ ranked[r].count = n
                        /\ 2 * diff <= n
                        /\ 2 * diff >= -n

\* C18: create_video_comment_index lists under each video exactly the input
\* records with that video_id, each once; a record stands before another one
\* of the list when it has more likes, or as many likes and a later timestamp,
\* or the same likes and timestamp and an earlier place in the input.
C18_VideoIndexSorted ==
    (script = "preindex" /\ pc \notin {"load", "video_index"}) =>
       /\ Keys(video_comments_index) =
             {comments_json[j].video_id : j \in DOMAIN comments_json}
       /\ \A i \in DOMAIN video_comments_index :
             LET video_id == video_comments_index[i].k
                 list == video_comments_index[i].v
             IN  /\ Range(list) =
                       {comments_json[j] : j \in
                          {n \in DOMAIN comments_json :
                             comments_json[n].video_id = video_id}}
                 /\ \A a, b \in DOMAIN list :
                       a < b =>
                          /\ list[a].comment_id # list[b].comment_id
                          /\ list[a].like_count >= list[b].like_count
                          /\ list[a].like_count = list[b].like_count =>
                                list[a].published_at_timestamp
                                   >= list[b].published_at_timestamp
                          /\ (/\ list[a].like_count = list[b].like_count
                              /\ list[a].published_at_timestamp
                                    = list[b].published_at_timestamp) =>
                                list[a].comment_id < list[b].comment_id

\* three records of one video were indexed: one that came later in the input
\* first, then two that are equal on both keys, in their input order
C18_Witness ==
    /\ script = "preindex" /\ pc = "search_index"
    /\ \E i \in DOMAIN video_comments_index :
          LET list == video_comments_index[i].v
          IN  /\ Len(list) = 3
              /\ list[1].comment_id > list[2].comment_id
              /\ list[2].like_count = list[3].like_count
              /\ list[2].published_at_timestamp = list[3].published_at_timestamp
              /\ list[2].comment_id < list[3].comment_id

(***************************************************************************)
(* Properties of the loader (SpecLoader).                                  *)
(***************************************************************************)
\* the post's identifiers, from the chunk artifacts in index order
FullList(shortcode) ==
    LET chunks == Get(index_data.posts, shortcode).chunks
    IN  Concat([j \in DOMAIN chunks |-> chunk_files[chunks[j].file].comment_ids])

\* C10 (as claimed): when chunk_size is a multiple of the page size and every
\* needed chunk loads, getCommentsForPost(post, page, limit) returns the
\* identifiers at positions (page-1)*limit .. min(page*limit, total)-1 of the
\* post's full list.
C10_PageSlice ==
    (/\ script = "loader" /\ event = "get"
     /\ db_index # {}
     /\ request.shortcode \in Keys(index_data.posts)
     /\ request.failed = {}
     /\ chunk_size % request.limit = 0) =>
       result.comments =
          Slice(FullList(request.shortcode),
                (request.page - 1) * request.limit,
                request.page * request.limit)

\* the identifiers of the chunk artifact at path f overlap the range the request r asks for
Overlaps(f, r) ==
    LET start == f[2] * chunk_size
    IN  /\ start < r.page * r.limit
        /\ start + chunk_files[f].count > (r.page - 1) * r.limit

\* C21: in any sequence of getCommentsForPost calls, a call calls fetch() only
\* for chunks of the requested post whose identifier range overlaps
\* [(page-1)*limit, page*limit) and that are not in the cache; what it fetches
\* it adds to the cache, and nothing ever leaves or changes in the cache: no
\* chunk artifact is fetched successfully twice.
C21_FetchOnlyNeededOnce ==
    [][event' = "get" =>
          /\ \A f \in request'.attempted :
                /\ f \notin DOMAIN db_cache
                /\ f[1] = request'.shortcode
                /\ Overlaps(f, request')
          /\ request'.fetched \subseteq request'.attempted
          /\ DOMAIN db_cache' = DOMAIN db_cache \cup request'.fetched
          /\ \A f \in DOMAIN db_cache : db_cache'[f] = db_cache[f]]_vars

\* a call returned identifiers without calling fetch(): its chunks were cached
C21_Witness ==
    /\ event = "get"
    /\ request.attempted = {}
    /\ Len(result.comments) = 2
    /\ Cardinality(DOMAIN db_cache) < Cardinality(DOMAIN chunk_files)

\* C24: getCommentsForPost for a post of the loaded index returns as total the
\* index's total_comments of the post, and hasMore = true exactly when the post
\* has identifiers at positions >= page*limit; for a post absent from the index,
\* or while the index is not loaded, it returns no comments, total 0 and
\* hasMore false, and calls fetch() for nothing.
C24_HasMoreAndUnknown ==
    (script = "loader" /\ event = "get") =>
       IF db_index # {} /\ request.shortcode \in Keys(index_data.posts)
       THEN /\ result.total = Get(index_data.posts, request.shortcode).total_comments
            /\ result.hasMore <=>
                  Len(FullList(request.shortcode)) > request.page * request.limit
       ELSE /\ result = [comments |-> <<>>, total |-> 0, hasMore |-> FALSE]
            /\ request.attempted = {}
            /\ request.fetched = {}

\* page 2 of a post of three identifiers, one per page: one more page is left
C24_Witness ==
    /\ event = "get"
    /\ db_index # {}
    /\ request.page = 2
    /\ result.total = 3
    /\ result.hasMore

\* the words of the video's comment texts, in the order of the concatenated text
VideoWords(video_id) ==
    LET OfVideo(c) == c.video_id = video_id
        cs == SelectSeq(comments_json, OfVideo)
    IN  FindWords(Concat([i \in DOMAIN cs |-> cs[i].text]))

Occurrences(words, w) == Cardinality({k \in DOMAIN words : words[k] = w})

FirstPosition(words, w) ==
    CHOOSE k \in DOMAIN words : words[k] = w /\ \A j \in 1..(k - 1) : words[j] # w

\* C22: for every video, word_cloud lists at most 20 words, all different, none
\* a stop word, each with its number of occurrences in the video's comment
\* texts, in descending order of count; every word left out is counted no
\* higher than any word kept (and none is left out while fewer than 20 are
\* kept), and of two words with the same count the one that occurs first in
\* the concatenated text comes first.
C22_WordCloud ==
    WordFreqDone =>
       \A i \in DOMAIN word_freq_index :
          LET cloud == word_freq_index[i].v.word_cloud
              words == VideoWords(word_freq_index[i].k)
              kept == {cloud[j].word : j \in DOMAIN cloud}
              left_out == (Range(words) \ stop_words) \ kept
          IN  /\ Len(cloud) <= 20
              /\ Cardinality(kept) = Len(cloud)
              /\ kept \subseteq Range(words) \ stop_words
              /\ left_out # {} => Len(cloud) = 20
              /\ \A j \in DOMAIN cloud :
                    /\ cloud[j].count = Occurrences(words, cloud[j].word)
                    /\ \A w \in left_out : Occurrences(words, w) <= cloud[j].count
              /\ \A j, k \in DOMAIN cloud :
                    j < k =>
                       \/ cloud[j].count > cloud[k].count
                       \/ /\ cloud[j].count = cloud[k].count
                          /\ FirstPosition(words, cloud[j].word)
                                < FirstPosition(words, cloud[k].word)

\* a video with 21 different words: the one said twice leads the word cloud,
\* and a word said once, later than 19 others said once, is left out
C22_Witness ==
    /\ WordFreqDone
    /\ \E i \in DOMAIN word_freq_index :
          LET cloud == word_freq_index[i].v.word_cloud
          IN  /\ Len(cloud) = 20
              /\ cloud[1] = [word |-> "xau", count |-> 2]
              /\ cloud[20].count = 1
              /\ Cardinality(Range(VideoWords(word_freq_index[i].k))) = 21

\* the chunk file at path f holds the identifiers of its post's list, at the
\* chunk's positions, and the loop over the posts has reached the post
WrittenInThisRun(f) ==
    /\ f[1] \in Keys(shortcode_comments)
    /\ LET i == CHOOSE k \in DOMAIN shortcode_comments : shortcode_comments[k].k = f[1]
           comments == shortcode_comments[i].v
       IN  /\ i <= chunk_pos
           /\ f[2] * chunk_size < Len(comments)
           /\ chunk_files[f].comment_ids =
                 Slice(comments, f[2] * chunk_size, (f[2] + 1) * chunk_size)

\* C25: once process() has cleaned the output directory, every chunk file in
\* it was written by this run; index.json and summary.json exist only when
\* every chunk file of every non-empty post has been written, and then every
\* descriptor of index.json names a chunk file that is there, with its count.
C25_CleanThenChunksThenIndex ==
    (script = "organize" /\ pc # "clean") =>
       /\ \A f \in DOMAIN chunk_files : WrittenInThisRun(f)
       /\ summary_json # {} => index_json # {}
       /\ \A index \in index_json :
             /\ chunk_pos > Len(shortcode_comments)
             /\ \A i \in DOMAIN shortcode_comments :
                   \A c \in 0..(CeilDiv(Len(shortcode_comments[i].v), chunk_size) - 1) :
                      ChunkPath(shortcode_comments[i].k, c) \in DOMAIN chunk_files
             /\ \A i \in DOMAIN index.posts :
                   \A j \in DOMAIN index.posts[i].v.chunks :
                      LET d == index.posts[i].v.chunks[j]
                      IN  /\ d.file \in DOMAIN chunk_files
                          /\ chunk_files[d.file].count = d.count

\* index.json lists post Q with its only chunk, and posts/Q/chunk_1.json, the
\* file an earlier run may have left, is not in the directory
C25_Witness ==
    /\ script = "organize"
    /\ \E index \in index_json :
          /\ "Q" \in Keys(index.posts)
          /\ Get(index.posts, "Q").chunk_count = 1
    /\ ChunkPath("Q", 0) \in DOMAIN chunk_files
    /\ ChunkPath("Q", 1) \notin DOMAIN chunk_files

(***************************************************************************)
(* Properties of match_videos_to_files (SpecMatch).                        *)
(***************************************************************************)
\* C28: every entry of the mapping has file_date = upload_date: the date
\* prefix of the matched file name is the published date of a video of that
\* id and title, whatever the titles are.
C28_DateMatchRequired ==
    script = "build_video_mapping" =>
       \A i \in DOMAIN mappings :
          LET e == mappings[i].v
          IN  /\ e.file_date = e.upload_date
              /\ e.actual_filename.date_str = e.upload_date
              /\ \E j \in DOMAIN videos :
                    /\ videos[j].video_id = mappings[i].k
                    /\ videos[j].title = e.title
                    /\ PublishedDate(videos[j].published_at) = {e.upload_date}

\* a video is mapped on its date alone (score 100) while a file of another
\* date whose title scores for the video stays unmatched
C28_Witness ==
    /\ pc = "done"
    /\ \E i \in DOMAIN mappings :
          LET e == mappings[i].v
          IN  /\ e.match_score = 100
              /\ \E j \in DOMAIN video_files :
                    /\ video_files[j].filename \notin matched_files
                    /\ video_files[j].date_str # e.upload_date
                    /\ Score(e.upload_date, e.title, video_files[j]) \in 1..99

\* C29: no two entries of the mapping have the same actual_filename; the file
\* a video is matched to was matched to no earlier video, no file that is
\* still unmatched scores higher for the video, and of the unmatched files of
\* that score it is the first in the file list.
C29_OneVideoPerFile ==
    /\ [](\A i, j \in DOMAIN mappings :
             i # j => mappings[i].v.actual_filename # mappings[j].v.actual_filename)
    /\ [][event' = "matched" =>
             LET e == Get(mappings', videos[video_pos].video_id)
                 free == {k \in DOMAIN video_files :
                            video_files[k].filename \notin matched_files}
                 score(k) == Score(e.upload_date, e.title, video_files[k])
             IN  /\ matched_files' = matched_files \cup {e.actual_filename}
                 /\ \E k \in free :
                       /\ video_files[k].filename = e.actual_filename
                       /\ \A j \in free :
                             \/ score(j) < score(k)
                             \/ score(j) = score(k) /\ k <= j]_vars

\* two files of the same date and title: the first video took the first of
\* them, the second video the second
C29_Witness ==
    /\ pc = "done"
    /\ Len(mappings) = 2
    /\ Len(video_files) = 2
    /\ video_files[1].title = video_files[2].title
    /\ video_files[1].date_str = video_files[2].date_str
    /\ mappings[1].v.actual_filename = video_files[1].filename
    /\ mappings[2].v.actual_filename = video_files[2].filename

(***************************************************************************)
(* Properties of the main() functions, CommentParser and RenderImporter    *)
(* (SpecTools).                                                            *)
(***************************************************************************)
\* C23: a run that lacks a required input never reports success and completes
\* no stage after the one that reads the input: without the metadata CSV
\* analyze_comments and parse_comments_to_db write no file and send nothing to
\* the database; without ./data/parsed/posts.csv (or DATABASE_URL, or the
\* schema file) import_to_render.main sends nothing to the database; without
\* comments.csv it completes neither import_comments nor verify.
C23_MissingInputAborts ==
    script \in DOMAIN ToolInputs =>
       /\ ~(ToolInputs[script] \subseteq inputs) => pc # "done" /\ event # "success"
       /\ (script \in {"analyze_comments", "parse_comments_to_db"}
              /\ "metadata_csv" \notin inputs) =>
             /\ outputs = {}
             /\ db_log = <<>>
             /\ Range(stages) \subseteq {"analyze_files"}
       /\ (script = "import_to_render"
              /\ {"DATABASE_URL", "posts_csv", "schema_sql"} \ inputs # {}) =>
             /\ db_log = <<>>
             /\ stages = <<>>
       /\ (script = "import_to_render" /\ "comments_csv" \notin inputs) =>
             Range(stages) \subseteq {"create_schema", "import_posts"}

\* import_to_render.main has exited: only ./data/parsed/posts.csv is absent
C23_Witness ==
    /\ script = "import_to_render"
    /\ inputs = {"DATABASE_URL", "comments_csv", "schema_sql"}
    /\ pc = "exited"
    /\ db_log = <<>>

\* the identifiers a file lists for its posts, in the order the parser reads them
LogIds(items) ==
    Concat([i \in DOMAIN items |->
              IF items[i].isDict /\ items[i].idsIsList THEN items[i].storedIds ELSE <<>>])

EntryRows(e) ==
    IF e.isDict /\ Truthy(e.target) /\ e.logs.kind = "list"
    THEN LET ids == LogIds(e.logs.items)
         IN  [i \in DOMAIN ids |-> [comment_id |-> ids[i], post_shortcode |-> e.target]]
    ELSE <<>>

FileRows(file) ==
    IF file.kind = "dict"
    THEN Concat([i \in DOMAIN file.entries |-> EntryRows(file.entries[i])])
    ELSE <<>>

\* C26: comments_data never holds two rows of the same comment_id, whatever
\* their posts and files; seen_comment_ids is the set of the comment_ids of
\* comments_data; parsing a file leaves the rows that were there as they are
\* and adds rows only for identifiers not seen before, each with the post of
\* the identifier's first occurrence in the file.
C26_OneRowPerComment ==
    /\ [](/\ \A i, j \in DOMAIN comments_data :
                i # j => comments_data[i].comment_id # comments_data[j].comment_id
          /\ seen_comment_ids = {comments_data[i].comment_id : i \in DOMAIN comments_data})
    /\ [][event' = "parsed_file" =>
             LET old == Len(comments_data)
                 listed == FileRows(db_file')
             IN  /\ Len(comments_data') >= old
                 /\ SubSeq(comments_data', 1, old) = comments_data
                 /\ \A i \in (old + 1)..Len(comments_data') :
                       /\ comments_data'[i].comment_id \notin seen_comment_ids
                       /\ \E k \in DOMAIN listed :
                             /\ listed[k] = comments_data'[i]
                             /\ \A j \in 1..(k - 1) :
                                   listed[j].comment_id # comments_data'[i].comment_id]_vars

\* identifier 1 has its row for post P; the file read last lists it for post Q
C26_Witness ==
    /\ event = "parsed_file"
    /\ [comment_id |-> 1, post_shortcode |-> "P"] \in Range(comments_data)
    /\ [comment_id |-> 1, post_shortcode |-> "Q"] \in Range(FileRows(db_file))
    /\ Len(comments_data) = 2

\* the rows of the insert statements sent for a table, in order
Batches(table) ==
    LET OfTable(x) == x.op = "insert" /\ x.table = table
        inserts == SelectSeq(db_log, OfTable)
    IN  [i \in DOMAIN inserts |-> inserts[i].rows]

\* C27: while import_posts or import_comments runs, the batches inserted so far
\* followed by the pending batch are the data rows read so far, in file order,
\* each inserted batch holding between 1 and batch_size rows, and imported
\* counts the inserted rows; when it returns, every data row has been inserted,
\* imported is the number of data rows, and the last statement is the commit.
C27_BatchesCoverRows ==
    (script = "import_to_render"
        /\ (pc \in {"posts_loop", "comments_loop"} \/ event = "imported")) =>
       LET table == IF pc \in {"posts_loop", "import_comments"} THEN "posts"
                    ELSE "comments"
           batches == Batches(table)
       IN  /\ \A i \in DOMAIN batches : Len(batches[i]) \in 1..batch_size
           /\ imported = Len(Concat(batches))
           /\ event # "imported" =>
                 Concat(batches) \o batch = [i \in 1..(row_pos - 1) |-> i]
           /\ event = "imported" =>
                 /\ Concat(batches) = [i \in 1..csv_rows |-> i]
                 /\ imported = csv_rows
                 /\ db_log[Len(db_log)] = Commit

\* import_comments returned after a full batch and a remaining row
C27_Witness ==
    /\ script = "import_to_render"
    /\ event = "imported"
    /\ pc = "verify"
    /\ batch_size = 2
    /\ Batches("comments") = <<<<1, 2>>, <<3>>>>

====
